---- MODULE Spec2Model ----
(***************************************************************************)
(* The draft engine of draft-app: the host's App component                 *)
(* (FantasyFootballDraft) and the useFirebaseDraft hook it reads its       *)
(* shared state from.                                                      *)
(*                                                                         *)
(* firebaseState is the room document draftRooms/<roomId> as the host      *)
(* renders it.  Every handler of the component reads the rendered values   *)
(* and issues one update() that merges a set of top-level fields into the  *)
(* document; a handler is one action.  The two host-only effects (mode     *)
(* switch, team on the clock) run after a render and are actions of their  *)
(* own, so the states between a handler's write and the effect's write     *)
(* are states of the model.                                                *)
(*                                                                         *)
(* A team's name and owner are kept as their lengths, the only thing the   *)
(* engine reads of them (the tiebreak hash).  A player is its id.  null is *)
(* 0: ids start at 1 and the code tests these fields for truthiness.       *)
(* leagueName, lastDraftAction, highlightedTeamIndex, highlightDirection   *)
(* and the timestamps are written and read by nothing but the renderer;    *)
(* they are left out.                                                      *)
(* The hook's error message is kept in the same record (field error, ""   *)
(* for null).                                                              *)
(*                                                                         *)
(* pendingUpdates holds the fields written to the room that the host has   *)
(* not rendered yet (update() has been called, the component still shows   *)
(* the snapshot before it).  A command of Next is followed through its     *)
(* write and the render of the echo in one step, so nothing is pending     *)
(* between two commands; the specifications of the last section let the    *)
(* next command or timer tick come before that render.                     *)
(*                                                                         *)
(* draftLogic is the state of the useDraftLogic hook, the local draft      *)
(* engine that is given the same teams, players and settings; only the     *)
(* specification that drives both engines changes it.                      *)
(*                                                                         *)
(* draftLogger is the DraftLogger singleton with what its promises and     *)
(* timers hold: the push() that has not settled yet, the setTimeout        *)
(* callbacks that have not run yet, and the clock Date.now() reads.  Only  *)
(* the specification of the logger changes it.                             *)
(***************************************************************************)
EXTENDS Integers, Sequences, FiniteSets, TLC

VARIABLES firebaseState, players, isHost, pendingUpdates, draftLogic,
          draftLogger

vars == <<firebaseState, players, isHost, pendingUpdates, draftLogic,
          draftLogger>>

(***************************************************************************)
(* Bounds of the model.                                                    *)
(***************************************************************************)
NumPlayers == 2

MaxBudget == 3

ListedRows == 1

MaxTeamBudget == 6

MaxAuctionRounds == 4

MaxLogEntries == 2

MaxClock == 4

(***************************************************************************)
(* Program constants and the values the settings dialog may be given.      *)
(***************************************************************************)
null == 0

maxRetries == 3

retryDelay == 1000

mockTeamCount == 2

DefaultNameLength == 6

DefaultOwnerLength == 7

draftTimerSeconds == 90

initialRosterSize == 16

AuctionBudgetValues == {MaxBudget - 1, MaxBudget}

AuctionRoundsValues == {0, 1, 2}

TeamCountValues == {2, 3}

NameLengthValues == {DefaultNameLength, DefaultNameLength + 2}

CatalogIds == 1..NumPlayers

(***************************************************************************)
(* JavaScript arithmetic and array helpers.                                *)
(***************************************************************************)
JsMod(a, n) == IF a >= 0 THEN a % n ELSE 0 - ((0 - a) % n)

Max(a, b) == IF a >= b THEN a ELSE b

Min(a, b) == IF a <= b THEN a ELSE b

SetMax(S) == CHOOSE x \in S : \A y \in S : y <= x

Includes(seq, x) == \E i \in DOMAIN seq : seq[i] = x

\* Last reading the wrong end of the array: the first element.
LastReadsFirst(seq) == seq[1]

Last(seq) == seq[Len(seq)]

\* slice(0, -2): the last two elements are dropped.
ButLastTwo(seq) == SubSeq(seq, 1, Len(seq) - 2)

ButLast(seq) == SubSeq(seq, 1, Len(seq) - 1)

NoUpdate == [k \in {} |-> 0]

\* error of the hook: null, or the message of the last failed update.
NoError == ""

UpdateFailed == "Update failed"

\* update(ref, updates): the named top-level fields are replaced, the rest kept.
Merge(s, u) == [k \in DOMAIN s |-> IF k \in DOMAIN u THEN u[k] ELSE s[k]]

(***************************************************************************)
(* Auction constraint helpers.                                             *)
(***************************************************************************)
getAuctionPlayersForTeam(team, draftHistory, auctionRounds) ==
    Cardinality({i \in DOMAIN draftHistory :
        draftHistory[i].teamId = team.id /\ draftHistory[i].round <= auctionRounds})

\* getMaxBidForTeam without the reserve for the picks still to come: the whole
\* budget may be bid.
getMaxBidForTeamNoReserve(team, draftHistory, auctionRounds, currentRound) ==
    IF currentRound > auctionRounds THEN team.budget
    ELSE IF auctionRounds - getAuctionPlayersForTeam(team, draftHistory, auctionRounds) <= 0
         THEN 0
         ELSE Max(1, team.budget)

\* getMaxBidForTeam returning 0 in the snake rounds as it does for a full quota.
getMaxBidForTeamZeroInSnakeRounds(team, draftHistory, auctionRounds, currentRound) ==
    IF currentRound > auctionRounds THEN 0
    ELSE LET auctionPlayersDrafted == getAuctionPlayersForTeam(team, draftHistory, auctionRounds)
             playersStillNeeded == auctionRounds - auctionPlayersDrafted
             dollarsToReserve == Max(0, playersStillNeeded - 1)
         IN  IF playersStillNeeded <= 0 THEN 0
             ELSE Max(1, team.budget - dollarsToReserve)

\* getMaxBidForTeam with the picks still needed taken from the auction rounds
\* still to be played instead of the team's own records.
getMaxBidForTeamRemainingRounds(team, draftHistory, auctionRounds, currentRound) ==
    IF currentRound > auctionRounds THEN team.budget
    ELSE LET playersStillNeeded == auctionRounds - currentRound + 1
             dollarsToReserve == Max(0, playersStillNeeded - 1)
         IN  IF playersStillNeeded <= 0 THEN 0
             ELSE Max(1, team.budget - dollarsToReserve)

getMaxBidForTeam(team, draftHistory, auctionRounds, currentRound) ==
    IF currentRound > auctionRounds THEN team.budget
    ELSE LET auctionPlayersDrafted == getAuctionPlayersForTeam(team, draftHistory, auctionRounds)
             playersStillNeeded == auctionRounds - auctionPlayersDrafted
             dollarsToReserve == Max(0, playersStillNeeded - 1)
         IN  IF playersStillNeeded <= 0 THEN 0
             ELSE Max(1, team.budget - dollarsToReserve)

canTeamBid(team, draftHistory, auctionRounds, currentRound) ==
    IF currentRound > auctionRounds THEN FALSE
    ELSE getAuctionPlayersForTeam(team, draftHistory, auctionRounds) < auctionRounds

(***************************************************************************)
(* Turn order.                                                             *)
(***************************************************************************)
tiebreakHash(t) == (t.id * 31 + t.name * 17 + t.owner * 13) % 1000

\* The comparator of sortTeamsByBudgetWithTiebreaker: negative when a sorts first.
compareTeams(a, b) ==
    IF b.budget # a.budget THEN b.budget - a.budget
    ELSE tiebreakHash(a) - tiebreakHash(b)

\* Array.prototype.sort is stable: equal elements keep their input order.
sortTeamsByBudgetWithTiebreaker(teams) ==
    LET Before(i, j) == \/ compareTeams(teams[i], teams[j]) < 0
                        \/ compareTeams(teams[i], teams[j]) = 0 /\ i < j
        Rank(i) == Cardinality({j \in DOMAIN teams : Before(j, i)}) + 1
    IN  [k \in DOMAIN teams |-> teams[CHOOSE i \in DOMAIN teams : Rank(i) = k]]

TeamIds(teams) == [i \in DOMAIN teams |-> teams[i].id]

\* The snake formula of the on-the-clock effect and of handleUndoDraft
\* (0-based index turned into a 1-based position of the order).
snakeTeamOnClock(order, round, pick, auctionRounds, teamCount) ==
    LET snakeRound == round - auctionRounds
        picksIntoSnakeRound == JsMod(pick - 1, teamCount)
        isEvenSnakeRound == JsMod(snakeRound, 2) = 0
        raw == IF isEvenSnakeRound THEN Len(order) - 1 - picksIntoSnakeRound
               ELSE picksIntoSnakeRound
        orderIndex == JsMod(JsMod(raw, Len(order)) + Len(order), Len(order))
    IN  order[orderIndex + 1]

(***************************************************************************)
(* The initial room written by the host (initialize_room).                 *)
(***************************************************************************)
newTeam(i, budget) ==
    [id |-> i, owner |-> DefaultOwnerLength, name |-> DefaultNameLength,
     budget |-> budget, players |-> <<>>]

initialState ==
    [teams |-> [i \in 1..mockTeamCount |-> newTeam(i, MaxBudget)],
     draftHistory |-> <<>>,
     draftSettings |-> [auctionBudget |-> MaxBudget,
                        rosterSize |-> initialRosterSize,
                        auctionRounds |-> 1,
                        draftTimer |-> draftTimerSeconds,
                        teamCount |-> mockTeamCount],
     currentRound |-> 1,
     currentPick |-> 1,
     draftMode |-> "auction",
     snakeDraftOrder |-> <<>>,
     timeRemaining |-> draftTimerSeconds,
     isTimerRunning |-> FALSE,
     selectedPlayer |-> null,
     currentBid |-> 1,
     currentBidTeam |-> null,
     currentDraftTeam |-> null,
     draftedPlayers |-> <<>>,
     error |-> NoError]

\* new DraftLogger(): the fields of the class, and around them the push() in
\* flight (writing, empty or one call with the entryId it computed), the
\* scheduled setTimeout callbacks (timeouts), the clock (now, milliseconds),
\* the number of log entries made so far (entries; a log entry is its number)
\* and the number of push() calls made for each of them (pushes).
DraftLogger ==
    [isEnabled |-> TRUE,
     logQueue |-> <<>>,
     isProcessingQueue |-> FALSE,
     retryAttempts |-> <<>>,
     writing |-> <<>>,
     timeouts |-> {},
     now |-> 0,
     entries |-> 0,
     pushes |-> [e \in 1..MaxLogEntries |-> 0]]

\* The state of the useDraftLogic hook after its first render (teams is the
\* caller's; the hook's timer and its undo button are left out).
useDraftLogic(teams) ==
    [teams |-> teams,
     draftedPlayers |-> <<>>,
     draftHistory |-> <<>>,
     currentDraftTeam |-> null,
     lastDraftAction |-> <<>>,
     currentRound |-> 1,
     currentPick |-> 1,
     draftMode |-> "auction",
     snakeDraftOrder |-> <<>>]

\* The room before the first pick.  The settings dialog writes a typed value to
\* draftSettings at once (updateDraftSetting) and changes the teams only on "Save
\* Settings", so the host may start the draft with any number of auction rounds
\* and with a team count that is typed and not saved (the latter is followed
\* for one auction round only).
Init ==
    /\ \E ar \in AuctionRoundsValues, tc \in TeamCountValues :
          /\ tc = mockTeamCount \/ ar = 1
          /\ firebaseState = [initialState EXCEPT !.draftSettings.auctionRounds = ar,
                                               !.draftSettings.teamCount = tc]
    /\ players = CatalogIds
    /\ isHost \in BOOLEAN
    /\ draftLogger = DraftLogger
    /\ pendingUpdates = NoUpdate
    /\ draftLogic = useDraftLogic(firebaseState.teams)

(***************************************************************************)
(* Handlers of the App component.  Each one returns the fields it passes   *)
(* to updateFirebaseState, computed from the rendered state s; NoUpdate is *)
(* an early return.                                                        *)
(***************************************************************************)
updateDraftSetting(s, setting, value) ==
    IF ~isHost THEN NoUpdate
    ELSE [draftSettings |-> [s.draftSettings EXCEPT ![setting] = value]]

updateCurrentBid(s, newBid) ==
    IF ~isHost THEN NoUpdate
    ELSE [currentBid |-> newBid]

handleSaveTeam(s, editingTeamId, editFormData) ==
    IF editingTeamId = null \/ ~isHost THEN NoUpdate
    ELSE [teams |-> [i \in DOMAIN s.teams |->
            IF s.teams[i].id = editingTeamId
            THEN [s.teams[i] EXCEPT !.owner = editFormData.owner,
                                    !.name = editFormData.name]
            ELSE s.teams[i]]]

\* The up/down buttons of the settings dialog: teams[index] changes place with
\* its neighbour (index counts from 1 here).
reorderTeams(s, index, other) ==
    IF ~isHost THEN NoUpdate
    ELSE [teams |-> [i \in DOMAIN s.teams |->
            IF i = index THEN s.teams[other]
            ELSE IF i = other THEN s.teams[index]
            ELSE s.teams[i]]]

\* The update of handleUndoDraft once its guards have passed.
undoUpdate(s) ==
    LET lastPick == Last(s.draftHistory)
        playerId == lastPick.playerId
        teamId == lastPick.teamId
        amount == lastPick.amount
        auctionRounds == s.draftSettings.auctionRounds
        updatedTeams == [i \in DOMAIN s.teams |->
            IF s.teams[i].id = teamId
            THEN [s.teams[i] EXCEPT
                    !.players = SelectSeq(@, LAMBDA p : p # playerId),
                    !.budget = IF lastPick.round <= auctionRounds
                               THEN @ + amount ELSE @]
            ELSE s.teams[i]]
        newDraftHistory == ButLast(s.draftHistory)
        newRound == lastPick.round
        newPick == lastPick.pick
        newDraftMode == IF newRound > auctionRounds THEN "snake" ELSE "auction"
        newSnakeDraftOrder ==
            IF newDraftMode = "snake"
            THEN TeamIds(sortTeamsByBudgetWithTiebreaker(updatedTeams))
            ELSE <<>>
        newCurrentDraftTeam ==
            IF newDraftMode = "snake"
            THEN snakeTeamOnClock(newSnakeDraftOrder, newRound, newPick,
                                  auctionRounds, Len(s.teams))
            ELSE null
    IN  IF playerId \notin players THEN NoUpdate
        ELSE [teams |-> updatedTeams,
              draftedPlayers |-> SelectSeq(s.draftedPlayers, LAMBDA id : id # playerId),
              draftHistory |-> newDraftHistory,
              currentRound |-> newRound,
              currentPick |-> newPick,
              draftMode |-> newDraftMode,
              snakeDraftOrder |-> newSnakeDraftOrder,
              currentDraftTeam |-> newCurrentDraftTeam,
              selectedPlayer |-> null,
              currentBid |-> 1,
              currentBidTeam |-> null]

\* handleUndoDraft without the look-up of the player in the catalog: the record
\* is removed whether its player is known or not.
handleUndoDraftWithoutLookup(s) ==
    IF Len(s.draftHistory) = 0 \/ ~isHost THEN NoUpdate
    ELSE LET lastPick == Last(s.draftHistory)
             auctionRounds == s.draftSettings.auctionRounds
             updatedTeams == [i \in DOMAIN s.teams |->
                 IF s.teams[i].id = lastPick.teamId
                 THEN [s.teams[i] EXCEPT
                         !.players = SelectSeq(@, LAMBDA p : p # lastPick.playerId),
                         !.budget = IF lastPick.round <= auctionRounds
                                    THEN @ + lastPick.amount ELSE @]
                 ELSE s.teams[i]]
             newDraftMode == IF lastPick.round > auctionRounds THEN "snake" ELSE "auction"
             newSnakeDraftOrder ==
                 IF newDraftMode = "snake"
                 THEN TeamIds(sortTeamsByBudgetWithTiebreaker(updatedTeams))
                 ELSE <<>>
         IN  [teams |-> updatedTeams,
              draftedPlayers |-> SelectSeq(s.draftedPlayers,
                                           LAMBDA id : id # lastPick.playerId),
              draftHistory |-> ButLast(s.draftHistory),
              currentRound |-> lastPick.round,
              currentPick |-> lastPick.pick,
              draftMode |-> newDraftMode,
              snakeDraftOrder |-> newSnakeDraftOrder,
              currentDraftTeam |->
                  IF newDraftMode = "snake"
                  THEN snakeTeamOnClock(newSnakeDraftOrder, lastPick.round, lastPick.pick,
                                        auctionRounds, Len(s.teams))
                  ELSE null,
              selectedPlayer |-> null,
              currentBid |-> 1,
              currentBidTeam |-> null]

\* handleUndoDraft with the empty-history test after the bid state is cleared.
handleUndoDraftClearsBidFirst(s) ==
    IF ~isHost THEN NoUpdate
    ELSE IF Len(s.draftHistory) = 0
    THEN [selectedPlayer |-> null, currentBid |-> 1, currentBidTeam |-> null]
    ELSE undoUpdate(s)

handleUndoDraft(s) ==
    IF Len(s.draftHistory) = 0 \/ ~isHost THEN NoUpdate
    ELSE undoUpdate(s)

\* handleResetDraft that empties the rosters and forgets the budgets.
handleResetDraftKeepsBudgets(s) ==
    IF ~isHost THEN NoUpdate
    ELSE [teams |-> [i \in DOMAIN s.teams |-> [s.teams[i] EXCEPT !.players = <<>>]],
          draftHistory |-> <<>>,
          draftedPlayers |-> <<>>,
          currentRound |-> 1,
          currentPick |-> 1,
          selectedPlayer |-> null,
          currentBid |-> 1,
          currentBidTeam |-> null,
          isTimerRunning |-> FALSE,
          timeRemaining |-> s.draftSettings.draftTimer,
          draftMode |-> "auction",
          snakeDraftOrder |-> <<>>,
          currentDraftTeam |-> null]

handleResetDraft(s) ==
    IF ~isHost THEN NoUpdate
    ELSE [teams |-> [i \in DOMAIN s.teams |->
                        [s.teams[i] EXCEPT !.players = <<>>,
                                           !.budget = s.draftSettings.auctionBudget]],
          draftHistory |-> <<>>,
          draftedPlayers |-> <<>>,
          currentRound |-> 1,
          currentPick |-> 1,
          selectedPlayer |-> null,
          currentBid |-> 1,
          currentBidTeam |-> null,
          isTimerRunning |-> FALSE,
          timeRemaining |-> s.draftSettings.draftTimer,
          draftMode |-> "auction",
          snakeDraftOrder |-> <<>>,
          currentDraftTeam |-> null]

handleDraftPick(s, playerId, teamId, amount) ==
    IF ~isHost \/ playerId \notin players THEN NoUpdate
    ELSE LET updatedTeams == [i \in DOMAIN s.teams |->
                 IF s.teams[i].id = teamId
                 THEN [s.teams[i] EXCEPT
                         !.players = Append(@, playerId),
                         !.budget = IF s.draftMode = "auction" THEN @ - amount ELSE @]
                 ELSE s.teams[i]]
             newDraftHistory == Append(s.draftHistory,
                 [playerId |-> playerId,
                  teamId |-> teamId,
                  amount |-> IF s.draftMode = "auction" THEN amount ELSE 0,
                  round |-> s.currentRound,
                  pick |-> s.currentPick])
             newPick == s.currentPick + 1
             newRound == IF s.currentPick % Len(s.teams) = 0
                         THEN s.currentRound + 1 ELSE s.currentRound
         IN  [teams |-> updatedTeams,
              draftHistory |-> newDraftHistory,
              draftedPlayers |-> Append(s.draftedPlayers, playerId),
              currentRound |-> newRound,
              currentPick |-> newPick,
              selectedPlayer |-> null,
              currentBid |-> 1,
              currentBidTeam |-> null,
              timeRemaining |-> s.draftSettings.draftTimer,
              isTimerRunning |-> (s.draftMode = "snake")]

handlePlayerSelect(s, player) ==
    IF ~isHost THEN NoUpdate
    ELSE [selectedPlayer |-> player,
          currentBid |-> 1,
          currentBidTeam |-> null,
          timeRemaining |-> s.draftSettings.draftTimer,
          isTimerRunning |-> TRUE]

handleBid(s, teamId, bidAmount) ==
    IF ~isHost \/ s.selectedPlayer = null THEN NoUpdate
    ELSE IF \A i \in DOMAIN s.teams : s.teams[i].id # teamId THEN NoUpdate
    ELSE LET team == s.teams[CHOOSE i \in DOMAIN s.teams : s.teams[i].id = teamId]
         IN  IF team.budget < bidAmount THEN NoUpdate
             ELSE [currentBid |-> bidAmount,
                   currentBidTeam |-> teamId,
                   timeRemaining |-> s.draftSettings.draftTimer]

handleBidComplete(s) ==
    IF s.selectedPlayer = null \/ s.currentBidTeam = null THEN NoUpdate
    ELSE handleDraftPick(s, s.selectedPlayer, s.currentBidTeam, s.currentBid)

handleSnakeDraftPick(s, playerId) ==
    IF s.currentDraftTeam # null
    THEN handleDraftPick(s, playerId, s.currentDraftTeam, 0)
    ELSE NoUpdate

handleSettingsUpdate(s, newSettings) ==
    IF ~isHost THEN NoUpdate
    ELSE LET n == Len(s.teams)
             rebudgeted == [i \in 1..n |->
                 [s.teams[i] EXCEPT !.budget = newSettings.auctionBudget]]
             updatedTeams ==
                 IF newSettings.teamCount > n
                 THEN [i \in 1..newSettings.teamCount |->
                         IF i <= n THEN rebudgeted[i]
                         ELSE newTeam(i, newSettings.auctionBudget)]
                 ELSE IF newSettings.teamCount < n
                 THEN SubSeq(rebudgeted, 1, newSettings.teamCount)
                 ELSE rebudgeted
         IN  [draftSettings |-> newSettings, teams |-> updatedTeams]

\* The Cancel handler leaving the bid and the bidder in place.
cancelBidKeepsBid(s) ==
    IF ~isHost THEN NoUpdate
    ELSE [selectedPlayer |-> null,
          isTimerRunning |-> FALSE]

cancelBid(s) ==
    IF ~isHost THEN NoUpdate
    ELSE [selectedPlayer |-> null,
          currentBid |-> 1,
          currentBidTeam |-> null,
          isTimerRunning |-> FALSE]

startTimer(s) ==
    IF ~isHost THEN NoUpdate ELSE [isTimerRunning |-> TRUE]

pauseTimer(s) ==
    IF ~isHost THEN NoUpdate ELSE [isTimerRunning |-> FALSE]

\* The timer effect of the hook with its host test left out.
timerTickOfAnyClient(s) ==
    IF s.isTimerRunning /\ s.timeRemaining > 0
    THEN [timeRemaining |-> Max(0, s.timeRemaining - 1),
          isTimerRunning |-> (Max(0, s.timeRemaining - 1) > 0)]
    ELSE NoUpdate

\* The timer tick that leaves isTimerRunning set when the time is up.
timerTickNeverStops(s) ==
    IF ~isHost THEN NoUpdate
    ELSE IF s.isTimerRunning /\ s.timeRemaining > 0
    THEN [timeRemaining |-> Max(0, s.timeRemaining - 1),
          isTimerRunning |-> TRUE]
    ELSE NoUpdate

\* One tick of the interval the hook's timer effect sets up; it writes with
\* update() itself, not through updateFirebaseState.
timerTick(s) ==
    IF ~isHost THEN NoUpdate
    ELSE IF s.isTimerRunning /\ s.timeRemaining > 0
    THEN [timeRemaining |-> Max(0, s.timeRemaining - 1),
          isTimerRunning |-> (Max(0, s.timeRemaining - 1) > 0)]
    ELSE NoUpdate

(***************************************************************************)
(* The two host-only effects, as the update each one issues (NoUpdate when *)
(* it returns without writing).  isConnected holds once the room exists.   *)
(***************************************************************************)
modeSwitchEffect(s) ==
    IF ~isHost \/ Len(s.teams) = 0 THEN NoUpdate
    ELSE IF s.currentRound > s.draftSettings.auctionRounds
    THEN IF s.draftMode = "auction"
         THEN [draftMode |-> "snake",
               snakeDraftOrder |-> TeamIds(sortTeamsByBudgetWithTiebreaker(s.teams)),
               isTimerRunning |-> TRUE,
               timeRemaining |-> s.draftSettings.draftTimer]
         ELSE NoUpdate
    ELSE IF s.draftMode = "snake"
         THEN [draftMode |-> "auction", snakeDraftOrder |-> <<>>]
         ELSE NoUpdate

currentTeamEffect(s) ==
    IF ~isHost THEN NoUpdate
    ELSE IF s.draftMode = "auction"
    THEN IF s.currentDraftTeam # null THEN [currentDraftTeam |-> null] ELSE NoUpdate
    ELSE IF Len(s.snakeDraftOrder) = 0 \/ Len(s.teams) = 0 THEN NoUpdate
    ELSE LET newCurrentDraftTeam ==
                 snakeTeamOnClock(s.snakeDraftOrder, s.currentRound, s.currentPick,
                                  s.draftSettings.auctionRounds, Len(s.teams))
         IN  IF s.currentDraftTeam # newCurrentDraftTeam
             THEN [currentDraftTeam |-> newCurrentDraftTeam]
             ELSE NoUpdate

(***************************************************************************)
(* Values the render derives from the state.                               *)
(***************************************************************************)
\* filteredPlayers without the draftedPlayers test: every player stays listed.
filteredPlayersKeepsDrafted(s) == players

filteredPlayers(s) == {p \in players : ~Includes(s.draftedPlayers, p)}

\* The rows of the player list the host clicks on: the list is sorted by rank,
\* and a player is nothing but its id to every handler, so the host's choice is
\* taken among the first ListedRows rows.
listedPlayers(s) ==
    {p \in filteredPlayers(s) :
        Cardinality({q \in filteredPlayers(s) : q < p}) < ListedRows}

draftHasStarted(s) == Len(s.draftHistory) > 0

eligibleTeams(s) ==
    {i \in DOMAIN s.teams :
        canTeamBid(s.teams[i], s.draftHistory, s.draftSettings.auctionRounds, s.currentRound)}

\* globalMaxBid taken from the budgets of the eligible teams, without the reserve.
globalMaxBidOfBudgets(s) ==
    IF eligibleTeams(s) # {}
    THEN SetMax({s.teams[i].budget : i \in eligibleTeams(s)})
    ELSE s.currentBid

globalMaxBid(s) ==
    IF eligibleTeams(s) # {}
    THEN SetMax({getMaxBidForTeam(s.teams[i], s.draftHistory,
                                  s.draftSettings.auctionRounds, s.currentRound) :
                    i \in eligibleTeams(s)})
    ELSE s.currentBid

\* canBid of the team selection grid.
canBid(s, team) ==
    /\ canTeamBid(team, s.draftHistory, s.draftSettings.auctionRounds, s.currentRound)
    /\ s.currentBid <= getMaxBidForTeam(team, s.draftHistory,
                                        s.draftSettings.auctionRounds, s.currentRound)

\* The auction panel (bid controls, team grid, Cancel, Complete) is rendered.
bidPanelShown(s) == s.draftMode = "auction" /\ s.selectedPlayer # null

(***************************************************************************)
(* Actions: a command is enabled when the control that issues it is        *)
(* rendered and not disabled.                                              *)
(***************************************************************************)
\* Budgets are numbers without a range in the code; the model follows them
\* from one overdraft below zero up to the largest budget.
BudgetInRange(s) ==
    \A i \in DOMAIN s.teams : s.teams[i].budget \in (0 - 1)..MaxBudget

\* updateFirebaseState of the hook: only the host's update reaches the room.
\* and the snapshot that follows it clears error (an early return of the handler,
\* NoUpdate, calls nothing).
updateFirebaseState(s, updates) ==
    IF ~isHost \/ DOMAIN updates = {} THEN s
    ELSE [Merge(s, updates) EXCEPT !.error = NoError]

\* update() rejects: the catch branch of updateFirebaseState sets error, and no
\* snapshot with the new fields arrives.
updateFirebaseStateFails(s, updates) ==
    IF ~isHost \/ DOMAIN updates = {} THEN s
    ELSE [s EXCEPT !.error = UpdateFailed]

Write(updates) ==
    /\ BudgetInRange(updateFirebaseState(firebaseState, updates))
    /\ firebaseState' = updateFirebaseState(firebaseState, updates)
    /\ UNCHANGED <<players, isHost, pendingUpdates, draftLogic, draftLogger>>

\* "Bid" button of a listed player (auction mode).
PlayerSelect ==
    /\ firebaseState.draftMode = "auction"
    /\ \E p \in listedPlayers(firebaseState) :
          Write(handlePlayerSelect(firebaseState, p))

\* "-" button.
BidDecrement ==
    /\ bidPanelShown(firebaseState)
    /\ isHost /\ firebaseState.currentBid > 1
    /\ Write(updateCurrentBid(firebaseState, Max(1, firebaseState.currentBid - 1)))

\* "+" button.
BidIncrement ==
    /\ bidPanelShown(firebaseState)
    /\ isHost /\ firebaseState.currentBid < globalMaxBid(firebaseState)
    /\ Write(updateCurrentBid(firebaseState,
                Min(globalMaxBid(firebaseState), firebaseState.currentBid + 1)))

\* A number typed into the bid field (parseInt(...) || 0, clamped).
BidTyped ==
    /\ bidPanelShown(firebaseState)
    /\ isHost
    /\ \E typed \in 0..(MaxBudget + 1) :
          Write(updateCurrentBid(firebaseState,
                   Max(1, Min(globalMaxBid(firebaseState), typed))))

\* A button of the team selection grid.
PlaceBid ==
    /\ bidPanelShown(firebaseState)
    /\ isHost
    /\ \E i \in DOMAIN firebaseState.teams :
          /\ canBid(firebaseState, firebaseState.teams[i])
          /\ Write(handleBid(firebaseState, firebaseState.teams[i].id,
                             firebaseState.currentBid))

\* "Complete" button.
BidComplete ==
    /\ bidPanelShown(firebaseState)
    /\ firebaseState.currentBidTeam # null
    /\ Write(handleBidComplete(firebaseState))

\* "Cancel" button of the auction panel.
BidCancel ==
    /\ bidPanelShown(firebaseState)
    /\ Write(cancelBid(firebaseState))

\* "Draft" button of a listed player (snake mode).
SnakeDraftPick ==
    /\ firebaseState.draftMode # "auction"
    /\ firebaseState.currentDraftTeam # null
    /\ \E p \in listedPlayers(firebaseState) :
          Write(handleSnakeDraftPick(firebaseState, p))

\* "Undo Last Pick" button.
UndoDraft ==
    /\ Len(firebaseState.draftHistory) > 0
    /\ isHost
    /\ Write(handleUndoDraft(firebaseState))

\* "Reset Draft" button.
ResetDraft ==
    /\ isHost /\ Len(firebaseState.draftHistory) # 0
    /\ Write(handleResetDraft(firebaseState))

\* The number inputs of the settings dialog, disabled once the draft has started.
ChangeSetting ==
    /\ isHost /\ ~draftHasStarted(firebaseState)
    /\ \/ \E v \in AuctionBudgetValues :
             Write(updateDraftSetting(firebaseState, "auctionBudget", v))
       \/ \E v \in AuctionRoundsValues :
             Write(updateDraftSetting(firebaseState, "auctionRounds", v))
       \/ \E v \in TeamCountValues :
             Write(updateDraftSetting(firebaseState, "teamCount", Max(2, v)))

\* "Save Settings" button: handleSettingsUpdate(draftSettings).
SaveSettings ==
    /\ isHost
    /\ Write(handleSettingsUpdate(firebaseState, firebaseState.draftSettings))

\* Effect: switch between auction and snake mode (host only).
ModeSwitchEffect ==
    /\ DOMAIN modeSwitchEffect(firebaseState) # {}
    /\ Write(modeSwitchEffect(firebaseState))

\* Effect: compute the team on the clock (host only).
CurrentTeamEffect ==
    /\ DOMAIN currentTeamEffect(firebaseState) # {}
    /\ Write(currentTeamEffect(firebaseState))

Next ==
    \/ PlayerSelect
    \/ BidDecrement
    \/ BidIncrement
    \/ BidTyped
    \/ PlaceBid
    \/ BidComplete
    \/ BidCancel
    \/ SnakeDraftPick
    \/ UndoDraft
    \/ ResetDraft
    \/ SaveSettings
    \/ ModeSwitchEffect
    \/ CurrentTeamEffect

Spec == Init /\ [][Next]_vars

\* "Save" of the team editor (editingTeamId and the edited form are the inputs).
SaveTeam ==
    /\ isHost
    /\ \E i \in DOMAIN firebaseState.teams, n \in NameLengthValues :
          Write(handleSaveTeam(firebaseState, firebaseState.teams[i].id,
                               [owner |-> firebaseState.teams[i].owner, name |-> n]))

\* The up and down buttons of the team list.
ReorderTeams ==
    /\ isHost
    /\ \E i \in DOMAIN firebaseState.teams :
          \/ i # 1 /\ Write(reorderTeams(firebaseState, i, i - 1))
          \/ i # Len(firebaseState.teams) /\ Write(reorderTeams(firebaseState, i, i + 1))

\* The draft with the team editor in play (and the settings dialog closed).
NextTeams ==
    \/ PlayerSelect
    \/ BidDecrement
    \/ BidIncrement
    \/ BidTyped
    \/ PlaceBid
    \/ BidComplete
    \/ BidCancel
    \/ SnakeDraftPick
    \/ UndoDraft
    \/ ResetDraft
    \/ ModeSwitchEffect
    \/ CurrentTeamEffect
    \/ SaveTeam
    \/ ReorderTeams

SpecTeams == Init /\ [][NextTeams]_vars

\* The draft with the settings inputs in play.
NextSettings == Next \/ ChangeSetting

SpecSettings == Init /\ [][NextSettings]_vars


(***************************************************************************)
(* State functions the properties are stated with.                         *)
(***************************************************************************)
\* The updates of the commits the rendered controls allow in s.
CommitChoices(s) ==
    IF s.draftMode = "auction"
    THEN IF s.selectedPlayer # null /\ s.currentBidTeam # null
         THEN {u \in {handleBidComplete(s)} : DOMAIN u # {}}
         ELSE {}
    ELSE IF s.currentDraftTeam # null
         THEN {u \in {handleSnakeDraftPick(s, p) : p \in listedPlayers(s)} : DOMAIN u # {}}
         ELSE {}

\* Both effects run to completion: the mode switch, then the team on the clock.
Settle(s) ==
    LET switched == Merge(s, modeSwitchEffect(s))
    IN  Merge(switched, currentTeamEffect(switched))

EffectsSettled(s) ==
    DOMAIN modeSwitchEffect(s) = {} /\ DOMAIN currentTeamEffect(s) = {}

CommitThenUndo(s, commit) ==
    LET settled == Settle(Merge(s, commit))
    IN  Merge(settled, handleUndoDraft(settled))

DraftCore(s) ==
    [currentRound |-> s.currentRound,
     currentPick |-> s.currentPick,
     draftMode |-> s.draftMode,
     snakeDraftOrder |-> s.snakeDraftOrder,
     teams |-> s.teams,
     draftedPlayers |-> s.draftedPlayers,
     draftHistory |-> s.draftHistory]

(***************************************************************************)
(* C1.  Round trip: from every reachable state in which a pick can be      *)
(* committed, the commit, the host's effects and an immediate undo restore *)
(* round, pick, mode, snake order, teams (budgets and rosters), drafted     *)
(* players and history.                                                    *)
(***************************************************************************)
C1_RoundTripRestores ==
    \A commit \in CommitChoices(firebaseState) :
        DraftCore(CommitThenUndo(firebaseState, commit)) = DraftCore(firebaseState)

(***************************************************************************)
(* State functions of the budget, order and quota properties.              *)
(***************************************************************************)
RECURSIVE SumAmounts(_, _, _)
\* The sum of the amounts of the records of draftHistory that team teamId won
\* in a round no later than auctionRounds.
SumAmounts(draftHistory, teamId, auctionRounds) ==
    IF Len(draftHistory) = 0 THEN 0
    ELSE LET rec == Last(draftHistory)
         IN  SumAmounts(ButLast(draftHistory), teamId, auctionRounds)
             + (IF rec.teamId = teamId /\ rec.round <= auctionRounds THEN rec.amount ELSE 0)

TeamById(s, teamId) ==
    s.teams[CHOOSE i \in DOMAIN s.teams : s.teams[i].id = teamId]

\* This step appends one record to draftHistory: a pick is committed.
PickCommitted ==
    firebaseState'.draftHistory # firebaseState.draftHistory
    /\ Len(firebaseState'.draftHistory) = Len(firebaseState.draftHistory) + 1

(***************************************************************************)
(* C2.  Budget invariant: in every reachable state each team's budget is   *)
(* draftSettings.auctionBudget minus the sum of the amounts of its records *)
(* with round <= auctionRounds, and no budget is negative.                 *)
(***************************************************************************)
C2_BudgetInvariant ==
    \A i \in DOMAIN firebaseState.teams :
        LET team == firebaseState.teams[i]
        IN  /\ team.budget = firebaseState.draftSettings.auctionBudget
                   - SumAmounts(firebaseState.draftHistory, team.id,
                                firebaseState.draftSettings.auctionRounds)
            /\ team.budget >= 0

(***************************************************************************)
(* C3.  Bid gate: every pick committed in auction mode has an amount no    *)
(* greater than getMaxBidForTeam of the winning team in the state just     *)
(* before the commit.                                                      *)
(***************************************************************************)
C3_BidGate ==
    [][(PickCommitted /\ firebaseState.draftMode = "auction") =>
          LET rec == Last(firebaseState'.draftHistory)
          IN  rec.amount <= getMaxBidForTeam(TeamById(firebaseState, rec.teamId),
                                firebaseState.draftHistory,
                                firebaseState.draftSettings.auctionRounds,
                                firebaseState.currentRound)]_vars

(***************************************************************************)
(* C4.  Phase invariant: in every reachable state draftMode is "snake"     *)
(* exactly when currentRound > draftSettings.auctionRounds.                *)
(***************************************************************************)
C4_PhaseInvariant ==
    (firebaseState.draftMode = "snake")
        <=> (firebaseState.currentRound > firebaseState.draftSettings.auctionRounds)

(***************************************************************************)
(* C5.  Round invariant: in every reachable state                          *)
(* currentRound = floor((currentPick - 1) / number of teams) + 1.          *)
(***************************************************************************)
C5_RoundInvariant ==
    firebaseState.currentRound
        = ((firebaseState.currentPick - 1) \div Len(firebaseState.teams)) + 1

(***************************************************************************)
(* C6.  Order invariant: whenever draftMode is "snake", snakeDraftOrder    *)
(* holds every team id exactly once.                                       *)
(***************************************************************************)
C6_OrderInvariant ==
    firebaseState.draftMode = "snake" =>
        LET order == firebaseState.snakeDraftOrder
        IN  /\ Len(order) = Len(firebaseState.teams)
            /\ \A i \in DOMAIN firebaseState.teams : Includes(order, firebaseState.teams[i].id)
            /\ \A i, j \in DOMAIN order : order[i] = order[j] => i = j

(***************************************************************************)
(* C7.  On-the-clock gate: every pick committed in snake mode is recorded  *)
(* for the team the snake formula yields for snakeDraftOrder, currentRound *)
(* and currentPick of the state the commit is issued in.                   *)
(***************************************************************************)
C7_OnTheClockGate ==
    [][(PickCommitted /\ firebaseState.draftMode = "snake") =>
          /\ Len(firebaseState.snakeDraftOrder) > 0
          /\ Last(firebaseState'.draftHistory).teamId
                = snakeTeamOnClock(firebaseState.snakeDraftOrder,
                                   firebaseState.currentRound,
                                   firebaseState.currentPick,
                                   firebaseState.draftSettings.auctionRounds,
                                   Len(firebaseState.teams))]_vars

budgetCase(teamCount, auctionRounds, budget, made) ==
    [initialState EXCEPT
        !.teams = [i \in 1..teamCount |->
            IF i = 1 THEN [newTeam(1, budget) EXCEPT !.players = [k \in 1..made |-> k]]
            ELSE newTeam(i, MaxTeamBudget)],
        !.draftSettings.auctionRounds = auctionRounds,
        !.draftSettings.auctionBudget = MaxTeamBudget,
        !.draftSettings.teamCount = teamCount,
        !.draftHistory = [k \in 1..made |->
            [playerId |-> k, teamId |-> 1, amount |-> 1,
             round |-> ((k - 1) \div teamCount) + 1, pick |-> k]],
        !.draftedPlayers = [k \in 1..made |-> k],
        !.currentPick = made + 1,
        !.currentRound = (made \div teamCount) + 1]

InitBudget ==
    /\ \E teamCount \in {1, 2}, auctionRounds \in 1..MaxAuctionRounds,
          budget \in 0..MaxTeamBudget, made \in 0..MaxAuctionRounds :
          /\ made <= auctionRounds
          /\ firebaseState = budgetCase(teamCount, auctionRounds, budget, made)
    /\ players = 1..(MaxAuctionRounds + 1)
    /\ isHost = TRUE
    /\ draftLogger = DraftLogger
    /\ pendingUpdates = NoUpdate
    /\ draftLogic = useDraftLogic(firebaseState.teams)

\* The commit by which the first team wins the next player at its maximum bid.
payMaxBid(s) ==
    IF canTeamBid(s.teams[1], s.draftHistory, s.draftSettings.auctionRounds, s.currentRound)
    THEN handleDraftPick(s, Len(s.draftHistory) + 1, s.teams[1].id,
             getMaxBidForTeam(s.teams[1], s.draftHistory,
                              s.draftSettings.auctionRounds, s.currentRound))
    ELSE NoUpdate

PayMaxBid ==
    /\ DOMAIN payMaxBid(firebaseState) # {}
    /\ firebaseState' = Merge(firebaseState, payMaxBid(firebaseState))
    /\ UNCHANGED <<players, isHost, pendingUpdates, draftLogic, draftLogger>>

NextBudget == PayMaxBid

SpecBudget == InitBudget /\ [][NextBudget]_vars

RECURSIVE PayAll(_)
\* The state after the first team has paid its maximum bid on every auction
\* pick it can still bid for.
PayAll(s) ==
    IF DOMAIN payMaxBid(s) = {} THEN s ELSE PayAll(Merge(s, payMaxBid(s)))

playersStillNeeded(s) ==
    s.draftSettings.auctionRounds
        - getAuctionPlayersForTeam(s.teams[1], s.draftHistory, s.draftSettings.auctionRounds)

MaxBidAtLeastOne(s) ==
    canTeamBid(s.teams[1], s.draftHistory, s.draftSettings.auctionRounds, s.currentRound)
        => getMaxBidForTeam(s.teams[1], s.draftHistory,
                            s.draftSettings.auctionRounds, s.currentRound) >= 1

C10_BiddingQuota ==
    \A i \in DOMAIN firebaseState.teams :
        LET won == getAuctionPlayersForTeam(firebaseState.teams[i],
                        firebaseState.draftHistory,
                        firebaseState.draftSettings.auctionRounds)
        IN  /\ won <= firebaseState.draftSettings.auctionRounds
            /\ firebaseState.draftMode = "snake"
                   => won = firebaseState.draftSettings.auctionRounds

TeamBudgets(s) == [i \in DOMAIN s.teams |-> s.teams[i].budget]

(***************************************************************************)
(* C11.  Every pick committed in a round after the auction rounds is       *)
(* recorded with amount 0 and leaves every team's budget unchanged,        *)
(* whether the mode-switch effect has run before the commit or not.        *)
(***************************************************************************)
C11_SnakePicksAreFree ==
    [][(PickCommitted
          /\ firebaseState.currentRound > firebaseState.draftSettings.auctionRounds) =>
          /\ Last(firebaseState'.draftHistory).amount = 0
          /\ TeamBudgets(firebaseState') = TeamBudgets(firebaseState)]_vars

\* This step removes the newest record of draftHistory: a pick is undone.
PickUndone ==
    /\ Len(firebaseState.draftHistory) > 0
    /\ firebaseState'.draftHistory
          = SubSeq(firebaseState.draftHistory, 1, Len(firebaseState.draftHistory) - 1)

\* The record an undo removes.
RemovedRecord == firebaseState.draftHistory[Len(firebaseState.draftHistory)]

(***************************************************************************)
(* C12.  Each commit increases currentPick by exactly 1; each undo sets    *)
(* currentRound and currentPick to the round and pick of the removed       *)
(* record, and that pick is currentPick - 1.                               *)
(***************************************************************************)
C12_PickCounterSteps ==
    [][/\ PickCommitted => firebaseState'.currentPick = firebaseState.currentPick + 1
       /\ PickUndone =>
             /\ firebaseState'.currentRound = RemovedRecord.round
             /\ firebaseState'.currentPick = RemovedRecord.pick
             /\ RemovedRecord.pick = firebaseState.currentPick - 1]_vars

\* Two picks are recorded, the newest closed a round, and the host can undo it.
C12_Witness ==
    /\ isHost
    /\ Len(firebaseState.draftHistory) >= 2
    /\ firebaseState.currentRound = RemovedRecord.round + 1
    /\ firebaseState.currentPick = RemovedRecord.pick + 1

\* The room after the host's "Undo Last Pick" in state s.
AfterUndo(s) == Merge(s, handleUndoDraft(s))

\* The newest record is an auction pick and the draft is already in snake mode.
UndoCrossesModeSwitch ==
    /\ isHost
    /\ firebaseState.draftMode = "snake"
    /\ Len(firebaseState.draftHistory) > 0
    /\ RemovedRecord.round <= firebaseState.draftSettings.auctionRounds

(***************************************************************************)
(* C13.  Undoing the last auction pick after the switch to snake mode      *)
(* returns draftMode to "auction", empties snakeDraftOrder, sets           *)
(* currentDraftTeam to null, refunds the amount to the pick's team and     *)
(* restores currentRound and currentPick to the undone pick.               *)
(***************************************************************************)
C13_UndoAcrossModeSwitch ==
    UndoCrossesModeSwitch =>
        LET after == AfterUndo(firebaseState)
        IN  /\ after.draftMode = "auction"
            /\ after.snakeDraftOrder = <<>>
            /\ after.currentDraftTeam = null
            /\ after.currentRound = RemovedRecord.round
            /\ after.currentPick = RemovedRecord.pick
            /\ after.draftHistory
                  = SubSeq(firebaseState.draftHistory, 1, Len(firebaseState.draftHistory) - 1)
            /\ \A i \in DOMAIN firebaseState.teams :
                  after.teams[i].budget
                     = firebaseState.teams[i].budget
                       + (IF firebaseState.teams[i].id = RemovedRecord.teamId
                          THEN RemovedRecord.amount ELSE 0)

\* The draft is in snake mode with a team on the clock, and the newest record
\* is an auction pick that was paid for.
C13_Witness ==
    /\ UndoCrossesModeSwitch
    /\ firebaseState.currentDraftTeam # null
    /\ RemovedRecord.amount >= 1

(***************************************************************************)
(* C14.  Undo with an empty draftHistory is a no-op: handleUndoDraft       *)
(* issues no write and the room is unchanged.                              *)
(***************************************************************************)
C14_UndoOfNothing ==
    Len(firebaseState.draftHistory) = 0 =>
        /\ DOMAIN handleUndoDraft(firebaseState) = {}
        /\ AfterUndo(firebaseState) = firebaseState

\* The host has a bid in progress (a player selected, a bidder chosen) and no
\* pick is recorded.
C14_Witness ==
    /\ isHost
    /\ Len(firebaseState.draftHistory) = 0
    /\ firebaseState.selectedPlayer # null
    /\ firebaseState.currentBidTeam # null
    /\ AfterUndo(firebaseState) = firebaseState

\* The room after the host's "Reset Draft" in state s.
AfterReset(s) == Merge(s, handleResetDraft(s))

(***************************************************************************)
(* C15.  Reset: from every reachable state the host's reset yields round 1, *)
(* pick 1, draftMode "auction", empty draftHistory, draftedPlayers and      *)
(* snakeDraftOrder, no team on the clock, no selected player, currentBid 1, *)
(* a stopped timer at draftSettings.draftTimer, every team with an empty    *)
(* roster and budget draftSettings.auctionBudget; draftSettings and the     *)
(* teams' ids, names and owners are unchanged.                              *)
(***************************************************************************)
C15_ResetRestoresCreatedState ==
    isHost =>
        LET after == AfterReset(firebaseState)
        IN  /\ after.currentRound = 1
            /\ after.currentPick = 1
            /\ after.draftMode = "auction"
            /\ after.draftHistory = <<>>
            /\ after.draftedPlayers = <<>>
            /\ after.snakeDraftOrder = <<>>
            /\ after.currentDraftTeam = null
            /\ after.selectedPlayer = null
            /\ after.currentBid = 1
            /\ after.currentBidTeam = null
            /\ after.isTimerRunning = FALSE
            /\ after.timeRemaining = firebaseState.draftSettings.draftTimer
            /\ after.draftSettings = firebaseState.draftSettings
            /\ Len(after.teams) = Len(firebaseState.teams)
            /\ \A i \in DOMAIN firebaseState.teams :
                  after.teams[i] = [firebaseState.teams[i] EXCEPT
                                       !.players = <<>>,
                                       !.budget = firebaseState.draftSettings.auctionBudget]

\* The host is in snake mode with a team on the clock, picks recorded and a
\* team that has spent part of its budget.
C15_Witness ==
    /\ isHost
    /\ firebaseState.draftMode = "snake"
    /\ firebaseState.currentDraftTeam # null
    /\ Len(firebaseState.draftHistory) >= 2
    /\ \E i \in DOMAIN firebaseState.teams :
          /\ firebaseState.teams[i].budget < firebaseState.draftSettings.auctionBudget
          /\ Len(firebaseState.teams[i].players) > 0

(***************************************************************************)
(* A client that is not the host: its room is whatever snapshot the        *)
(* subscription delivers, and it may issue every command of the component. *)
(***************************************************************************)
SnapshotTimes == {0, 1, draftTimerSeconds}

\* A room as the host may have left it, delivered by onValue.
Snapshots ==
    {[initialState EXCEPT
        !.draftMode = mode,
        !.selectedPlayer = selected,
        !.currentBid = bid,
        !.currentBidTeam = bidTeam,
        !.currentDraftTeam = onClock,
        !.snakeDraftOrder = IF mode = "snake" THEN TeamIds(initialState.teams) ELSE <<>>,
        !.isTimerRunning = running,
        !.timeRemaining = time,
        !.draftHistory = IF picked
                         THEN <<[playerId |-> 1, teamId |-> 1, amount |-> 1,
                                 round |-> 1, pick |-> 1]>>
                         ELSE <<>>,
        !.draftedPlayers = IF picked THEN <<1>> ELSE <<>>,
        !.currentPick = IF picked THEN 2 ELSE 1] :
        mode \in {"auction", "snake"},
        selected \in {null} \cup CatalogIds,
        bid \in 1..MaxBudget,
        bidTeam \in {null, 1},
        onClock \in {null, 1},
        running \in BOOLEAN,
        time \in SnapshotTimes,
        picked \in BOOLEAN}

InitObserver ==
    /\ firebaseState = initialState
    /\ players = CatalogIds
    /\ isHost = FALSE
    /\ draftLogger = DraftLogger
    /\ pendingUpdates = NoUpdate
    /\ draftLogic = useDraftLogic(firebaseState.teams)

\* onValue: the subscription replaces the client's room by a new snapshot.
RemoteSnapshot ==
    /\ ~isHost
    /\ firebaseState' \in Snapshots
    /\ UNCHANGED <<players, isHost, pendingUpdates, draftLogic, draftLogger>>

\* The timer interval fires; its write does not pass through updateFirebaseState.
TimerTick ==
    /\ firebaseState' = Merge(firebaseState, timerTick(firebaseState))
    /\ UNCHANGED <<players, isHost, pendingUpdates, draftLogic, draftLogger>>

\* The client calls a handler, whatever the state of the control that issues it.
ObserverCommand ==
    \/ \E p \in players : Write(handlePlayerSelect(firebaseState, p))
    \/ \E teamId \in 1..(mockTeamCount + 1), bid \in 1..MaxBudget :
          Write(handleBid(firebaseState, teamId, bid))
    \/ \E bid \in 1..MaxBudget : Write(updateCurrentBid(firebaseState, bid))
    \/ Write(handleBidComplete(firebaseState))
    \/ \E p \in players : Write(handleSnakeDraftPick(firebaseState, p))
    \/ Write(handleUndoDraft(firebaseState))
    \/ Write(handleResetDraft(firebaseState))
    \/ Write(handleSettingsUpdate(firebaseState, firebaseState.draftSettings))
    \/ \E v \in AuctionRoundsValues :
          Write(updateDraftSetting(firebaseState, "auctionRounds", v))
    \/ \E i \in DOMAIN firebaseState.teams, n \in NameLengthValues :
          Write(handleSaveTeam(firebaseState, firebaseState.teams[i].id,
                               [owner |-> firebaseState.teams[i].owner, name |-> n]))
    \/ Write(reorderTeams(firebaseState, 1, 2))
    \/ Write(startTimer(firebaseState))
    \/ Write(pauseTimer(firebaseState))
    \/ Write(cancelBid(firebaseState))
    \/ Write(modeSwitchEffect(firebaseState))
    \/ Write(currentTeamEffect(firebaseState))

NextObserver ==
    \/ RemoteSnapshot
    \/ ObserverCommand
    \/ TimerTick

SpecObserver == InitObserver /\ [][NextObserver]_vars

(***************************************************************************)
(* C16.  Single authority: no command of a client that is not the host     *)
(* (select, bid, bid change, complete, snake pick, undo, reset, settings,  *)
(* team edit, timer start and pause, timer tick, cancel) changes a field   *)
(* of the room.                                                            *)
(***************************************************************************)
C16_SingleAuthority ==
    [][(~isHost /\ (ObserverCommand \/ TimerTick)) =>
          firebaseState' = firebaseState]_vars

\* The client that is not the host holds a snapshot with a recorded pick, a
\* bid in progress and a running timer: complete, undo and tick would all
\* write for the host.
C16_Witness ==
    /\ ~isHost
    /\ Len(firebaseState.draftHistory) > 0
    /\ firebaseState.selectedPlayer # null
    /\ firebaseState.currentBidTeam # null
    /\ firebaseState.isTimerRunning
    /\ firebaseState.timeRemaining > 0

(***************************************************************************)
(* C17.  Settings are frozen once the draft has started: while             *)
(* draftHistory is non-empty, neither a changed setting nor "Save          *)
(* Settings" changes draftSettings, the number of teams or a team's budget. *)
(***************************************************************************)
C17_SettingsFrozen ==
    [][(draftHasStarted(firebaseState) /\ (ChangeSetting \/ SaveSettings)) =>
          /\ firebaseState'.draftSettings = firebaseState.draftSettings
          /\ Len(firebaseState'.teams) = Len(firebaseState.teams)
          /\ TeamBudgets(firebaseState') = TeamBudgets(firebaseState)]_vars

(***************************************************************************)
(* The host's draft with store writes that may be rejected.                *)
(***************************************************************************)
WriteFails(updates) ==
    /\ isHost
    /\ DOMAIN updates # {}
    /\ firebaseState' = updateFirebaseStateFails(firebaseState, updates)
    /\ UNCHANGED <<players, isHost, pendingUpdates, draftLogic, draftLogger>>

\* "Complete" or "Draft" is pressed and the commit's update() is rejected.
CommitWriteFails ==
    \E commit \in CommitChoices(firebaseState) : WriteFails(commit)

\* "Undo Last Pick" is pressed and the undo's update() is rejected.
UndoWriteFails ==
    /\ Len(firebaseState.draftHistory) > 0
    /\ WriteFails(handleUndoDraft(firebaseState))

NextFailure ==
    \/ Next
    \/ CommitWriteFails
    \/ UndoWriteFails

SpecFailure == Init /\ [][NextFailure]_vars

(***************************************************************************)
(* C18.  A commit or undo whose store write fails is not lost: the pick    *)
(* (or its removal) stays part of the host's draft state, and the failure  *)
(* is reported.                                                            *)
(***************************************************************************)
C18_FailedWriteKeepsTransition ==
    [][/\ CommitWriteFails =>
             /\ Len(firebaseState'.draftHistory) = Len(firebaseState.draftHistory) + 1
             /\ firebaseState'.currentPick = firebaseState.currentPick + 1
             /\ firebaseState'.error # NoError
       /\ UndoWriteFails =>
             /\ Len(firebaseState'.draftHistory) = Len(firebaseState.draftHistory) - 1
             /\ firebaseState'.error # NoError]_vars

(***************************************************************************)
(* The team the on-the-clock effect leaves on the clock in s, and the one  *)
(* handleUndoDraft computes when the undo lands in a snake round.          *)
(***************************************************************************)
teamOnClockAfterEffect(s) == Merge(s, currentTeamEffect(s)).currentDraftTeam

(***************************************************************************)
(* C19.  In snake mode with a non-empty order of length n the effect puts  *)
(* order[i] (odd snake round) or order[n - 1 - i] (even snake round) on    *)
(* the clock, i = (currentPick - 1) mod n, and so does an undo that lands  *)
(* in a snake round; with an empty order no team is put on the clock.      *)
(***************************************************************************)
C19_ActiveParticipant ==
    LET activeParticipant(order, r, currentPick) ==
            LET n == Len(order)
                i == (currentPick - 1) % n
            IN  IF r % 2 = 1 THEN order[i + 1] ELSE order[(n - 1 - i) + 1]
        s == firebaseState
        r == s.currentRound - s.draftSettings.auctionRounds
        u == currentTeamEffect(s)
        undone == AfterUndo(s)
    IN  /\ (isHost /\ s.draftMode = "snake" /\ Len(s.snakeDraftOrder) > 0) =>
              /\ teamOnClockAfterEffect(s)
                    = activeParticipant(s.snakeDraftOrder, r, s.currentPick)
              /\ \E k \in 0..(Len(s.snakeDraftOrder) - 1) :
                    s.snakeDraftOrder[k + 1] = teamOnClockAfterEffect(s)
        /\ (isHost /\ Len(s.snakeDraftOrder) = 0) =>
              \/ "currentDraftTeam" \notin DOMAIN u
              \/ u.currentDraftTeam = null
        /\ (isHost /\ Len(s.draftHistory) > 0 /\ undone.draftMode = "snake") =>
              undone.currentDraftTeam
                 = activeParticipant(undone.snakeDraftOrder,
                                     undone.currentRound - undone.draftSettings.auctionRounds,
                                     undone.currentPick)

\* The effect has put a team on the clock in an even snake round, read from
\* the end of the order.
C19_Witness ==
    /\ firebaseState.draftMode = "snake"
    /\ Len(firebaseState.snakeDraftOrder) > 1
    /\ (firebaseState.currentRound - firebaseState.draftSettings.auctionRounds) % 2 = 0
    /\ JsMod(firebaseState.currentPick - 1, Len(firebaseState.snakeDraftOrder)) = 0
    /\ firebaseState.currentDraftTeam = Last(firebaseState.snakeDraftOrder)
    /\ currentTeamEffect(firebaseState) = NoUpdate

(***************************************************************************)
(* C20.  Bid eligibility in a bidding round: a team that still needs       *)
(* k = auctionRounds - (its records with round <= auctionRounds) > 0 picks *)
(* can bid, and its maximum bid is max(1, budget - max(0, k - 1)); k is    *)
(* counted against all the bidding rounds, not the ones still to play.     *)
(***************************************************************************)
C20_BidEligibility ==
    LET s == firebaseState
        auctionRounds == s.draftSettings.auctionRounds
    IN  s.currentRound <= auctionRounds =>
          \A t \in DOMAIN s.teams :
             LET team == s.teams[t]
                 k == auctionRounds
                        - Cardinality({h \in DOMAIN s.draftHistory :
                              /\ s.draftHistory[h].teamId = team.id
                              /\ s.draftHistory[h].round <= auctionRounds})
                 reserve == IF k - 1 > 0 THEN k - 1 ELSE 0
                 maxBid == IF team.budget - reserve > 1 THEN team.budget - reserve ELSE 1
             IN  k > 0 =>
                   /\ canTeamBid(team, s.draftHistory, auctionRounds, s.currentRound)
                   /\ getMaxBidForTeam(team, s.draftHistory, auctionRounds, s.currentRound)
                         = maxBid

\* The first team, needing three or more picks, has won a player at its maximum
\* bid of more than one dollar: it still needs k >= 2 picks, fewer than the
\* bidding rounds still to play, has kept exactly one dollar for each of them,
\* and its maximum bid is now one dollar.
C20_Witness ==
    LET s == firebaseState
        k == playersStillNeeded(s)
    IN  /\ Len(s.draftHistory) > 0
        /\ Last(s.draftHistory).teamId = s.teams[1].id
        /\ Last(s.draftHistory).amount >= 2
        /\ s.currentRound <= s.draftSettings.auctionRounds
        /\ k >= 2
        /\ k < s.draftSettings.auctionRounds - s.currentRound + 1
        /\ s.teams[1].budget = k
        /\ canTeamBid(s.teams[1], s.draftHistory,
                      s.draftSettings.auctionRounds, s.currentRound)
        /\ getMaxBidForTeam(s.teams[1], s.draftHistory,
                            s.draftSettings.auctionRounds, s.currentRound) = 1

(***************************************************************************)
(* C21 as stated.  Bid eligibility outside the quota: when currentRound >  *)
(* auctionRounds, or when the team already has auctionRounds bidding-phase *)
(* picks, canTeamBid is false and getMaxBidForTeam is 0.                   *)
(***************************************************************************)
C21_NoBidOutsideQuota ==
    LET s == firebaseState
        auctionRounds == s.draftSettings.auctionRounds
    IN  \A t \in DOMAIN s.teams :
           LET made == Cardinality({h \in DOMAIN s.draftHistory :
                           /\ s.draftHistory[h].teamId = s.teams[t].id
                           /\ s.draftHistory[h].round <= auctionRounds})
           IN  (s.currentRound > auctionRounds \/ made >= auctionRounds) =>
                  /\ ~canTeamBid(s.teams[t], s.draftHistory, auctionRounds, s.currentRound)
                  /\ getMaxBidForTeam(s.teams[t], s.draftHistory, auctionRounds,
                                      s.currentRound) = 0

(***************************************************************************)
(* C21 with the value the function returns in the snake rounds.  When      *)
(* currentRound > auctionRounds, canTeamBid is false and getMaxBidForTeam  *)
(* is the team's budget; in a bidding round, for a team that already has   *)
(* auctionRounds bidding-phase picks, canTeamBid is false and              *)
(* getMaxBidForTeam is 0.                                                  *)
(***************************************************************************)
C21_NoBidOutsideQuotaBudgetInSnakeRounds ==
    LET s == firebaseState
        auctionRounds == s.draftSettings.auctionRounds
    IN  \A t \in DOMAIN s.teams :
           LET made == Cardinality({h \in DOMAIN s.draftHistory :
                           /\ s.draftHistory[h].teamId = s.teams[t].id
                           /\ s.draftHistory[h].round <= auctionRounds})
               maxBid == getMaxBidForTeam(s.teams[t], s.draftHistory, auctionRounds,
                                          s.currentRound)
           IN  /\ s.currentRound > auctionRounds =>
                    /\ ~canTeamBid(s.teams[t], s.draftHistory, auctionRounds, s.currentRound)
                    /\ maxBid = s.teams[t].budget
               /\ (s.currentRound <= auctionRounds /\ made >= auctionRounds) =>
                    /\ ~canTeamBid(s.teams[t], s.draftHistory, auctionRounds, s.currentRound)
                    /\ maxBid = 0

\* After the last bidding pick the draft is in a snake round, and a team that
\* paid for a player still has money.
C21_Witness ==
    LET s == firebaseState
    IN  /\ s.currentRound > s.draftSettings.auctionRounds
        /\ \E h \in DOMAIN s.draftHistory : s.draftHistory[h].amount > 0
        /\ \E t \in DOMAIN s.teams :
              /\ s.teams[t].budget > 0
              /\ Len(s.teams[t].players) > 0

(***************************************************************************)
(* C22.  Whenever draftMode is "snake", snakeDraftOrder lists the teams in *)
(* non-increasing order of their current budget, teams of equal budget in  *)
(* ascending order of the tiebreak value.                                  *)
(***************************************************************************)
C22_OrderSortedByBudget ==
    LET s == firebaseState
        order == s.snakeDraftOrder
        ids == {s.teams[i].id : i \in DOMAIN s.teams}
    IN  s.draftMode = "snake" =>
           /\ Len(order) = Len(s.teams)
           /\ \A k \in DOMAIN order : order[k] \in ids
           /\ \A j, k \in DOMAIN order :
                 (j < k /\ order[j] \in ids /\ order[k] \in ids) =>
                    LET a == TeamById(s, order[j])
                        b == TeamById(s, order[k])
                    IN  \/ a.budget > b.budget
                        \/ a.budget = b.budget /\ tiebreakHash(a) <= tiebreakHash(b)

(***************************************************************************)
(* C23.  Global bid ceiling: while a player is selected in auction mode,   *)
(* 1 <= currentBid, and currentBid is at most the largest getMaxBidForTeam *)
(* of the teams that can bid.                                              *)
(***************************************************************************)
C23_GlobalBidCeiling ==
    LET s == firebaseState
        eligible == {i \in DOMAIN s.teams :
                        canTeamBid(s.teams[i], s.draftHistory,
                                   s.draftSettings.auctionRounds, s.currentRound)}
    IN  (s.draftMode = "auction" /\ s.selectedPlayer # null) =>
           /\ 1 <= s.currentBid
           /\ \A i \in eligible : \E j \in eligible :
                 s.currentBid <= getMaxBidForTeam(s.teams[j], s.draftHistory,
                                     s.draftSettings.auctionRounds, s.currentRound)

\* After a completed pick a player is selected and the bid has been raised to
\* the ceiling, which is above one dollar and below the largest budget.
C23_Witness ==
    LET s == firebaseState
    IN  /\ s.draftMode = "auction" /\ s.selectedPlayer # null
        /\ Len(s.draftHistory) > 0
        /\ eligibleTeams(s) # {}
        /\ s.currentBid = globalMaxBid(s)
        /\ s.currentBid > 1
        /\ \E i \in eligibleTeams(s) : s.teams[i].budget > s.currentBid

(***************************************************************************)
(* sortTeamsByBudgetWithTiebreaker over teams of any name and owner: the   *)
(* room is in its first snake round before the first pick, with teams as   *)
(* the team editor can leave them; the host moves teams up and down the    *)
(* list, and the mode-switch effect sorts them.                            *)
(***************************************************************************)
OwnerLengthValues == {DefaultOwnerLength, DefaultOwnerLength + 5}

InitOrder ==
    /\ \E n \in TeamCountValues :
          \E budget \in AuctionBudgetValues,
             name \in [1..n -> NameLengthValues],
             owner \in [1..n -> OwnerLengthValues] :
             firebaseState =
                [initialState EXCEPT
                    !.teams = [i \in 1..n |->
                                  [newTeam(i, budget) EXCEPT !.name = name[i],
                                                             !.owner = owner[i]]],
                    !.draftSettings.auctionBudget = budget,
                    !.draftSettings.teamCount = n,
                    !.draftSettings.auctionRounds = 0]
    /\ players = CatalogIds
    /\ isHost = TRUE
    /\ draftLogger = DraftLogger
    /\ pendingUpdates = NoUpdate
    /\ draftLogic = useDraftLogic(firebaseState.teams)

NextOrder ==
    \/ ReorderTeams
    \/ ModeSwitchEffect

SpecOrder == InitOrder /\ [][NextOrder]_vars

(***************************************************************************)
(* C24.  Turn-order determinism: the ids sortTeamsByBudgetWithTiebreaker   *)
(* returns do not depend on the order in which the teams are listed:       *)
(* moving a team one place in the list leaves the sorted ids unchanged.    *)
(***************************************************************************)
C24_OrderDeterminism ==
    LET s == firebaseState
    IN  \A i \in DOMAIN s.teams :
           i # Len(s.teams) =>
              TeamIds(sortTeamsByBudgetWithTiebreaker(reorderTeams(s, i, i + 1).teams))
                 = TeamIds(sortTeamsByBudgetWithTiebreaker(s.teams))

(***************************************************************************)
(* The roster table of a team: assignPlayersToRosterSlots.  The function   *)
(* reads only the position of each player, so in this part a player is     *)
(* written as its position, and a slot holds the place of its player in    *)
(* the list (null for an empty slot).                                      *)
(***************************************************************************)
MaxRoster == 5

ROSTER_STRUCTURE ==
    << [id |-> "qb",   position |-> "QB",   eligiblePositions |-> {"QB"}],
       [id |-> "wr1",  position |-> "WR",   eligiblePositions |-> {"WR"}],
       [id |-> "wr2",  position |-> "WR",   eligiblePositions |-> {"WR"}],
       [id |-> "wr3",  position |-> "WR",   eligiblePositions |-> {"WR"}],
       [id |-> "rb1",  position |-> "RB",   eligiblePositions |-> {"RB"}],
       [id |-> "rb2",  position |-> "RB",   eligiblePositions |-> {"RB"}],
       [id |-> "te",   position |-> "TE",   eligiblePositions |-> {"TE"}],
       [id |-> "flex", position |-> "FLEX", eligiblePositions |-> {"WR", "RB", "TE"}],
       [id |-> "k",    position |-> "K",    eligiblePositions |-> {"K"}],
       [id |-> "def",  position |-> "DST",  eligiblePositions |-> {"DST"}] >>

\* validPositions with every position let through.
validPositionsAndOthers == {"QB", "WR", "RB", "TE", "K", "DST", "P"}

validPositions == {"QB", "WR", "RB", "TE", "K", "DST"}

\* An empty bench slot, id `bench${n}`.
benchSlot(n) ==
    [id |-> "bench" \o ToString(n), position |-> "BEN",
     eligiblePositions |-> {"QB", "WR", "RB", "TE", "K", "DST"},
     isEmpty |-> TRUE, player |-> null]

benchSlotsNeeded(rosterSize) == Max(0, rosterSize - Len(ROSTER_STRUCTURE))

\* The slots before any player is placed: the structure, then the bench slots.
templateSlots(rosterSize) ==
    [k \in 1..(Len(ROSTER_STRUCTURE) + benchSlotsNeeded(rosterSize)) |->
        IF k <= Len(ROSTER_STRUCTURE)
        THEN [id |-> ROSTER_STRUCTURE[k].id,
              position |-> ROSTER_STRUCTURE[k].position,
              eligiblePositions |-> ROSTER_STRUCTURE[k].eligiblePositions,
              isEmpty |-> TRUE, player |-> null]
        ELSE benchSlot(k - Len(ROSTER_STRUCTURE))]

\* slots.find(test) as a place in slots, 0 for undefined; test[k] is the test
\* applied to slots[k].
find(slots, test) ==
    LET found == {k \in DOMAIN slots : test[k]}
    IN  IF found = {} THEN 0 ELSE CHOOSE k \in found : \A j \in found : k <= j

\* availableSlot with the bench tried before FLEX.
availableSlotBenchBeforeFlex(slots, position) ==
    LET specific == find(slots, [k \in DOMAIN slots |->
                        /\ slots[k].isEmpty
                        /\ position \in slots[k].eligiblePositions
                        /\ slots[k].position # "FLEX"
                        /\ slots[k].position # "BEN"])
        bench == find(slots, [k \in DOMAIN slots |->
                        /\ slots[k].isEmpty
                        /\ slots[k].position = "BEN"
                        /\ position \in slots[k].eligiblePositions])
        flex == find(slots, [k \in DOMAIN slots |->
                        /\ slots[k].isEmpty
                        /\ slots[k].position = "FLEX"
                        /\ position \in slots[k].eligiblePositions])
    IN  IF specific # 0 THEN specific
        ELSE IF bench # 0 THEN bench
        ELSE flex

\* The slot found for a player: position-specific, then FLEX, then bench.
availableSlot(slots, position) ==
    LET specific == find(slots, [k \in DOMAIN slots |->
                        /\ slots[k].isEmpty
                        /\ position \in slots[k].eligiblePositions
                        /\ slots[k].position # "FLEX"
                        /\ slots[k].position # "BEN"])
        flex == find(slots, [k \in DOMAIN slots |->
                        /\ slots[k].isEmpty
                        /\ slots[k].position = "FLEX"
                        /\ position \in slots[k].eligiblePositions])
        bench == find(slots, [k \in DOMAIN slots |->
                        /\ slots[k].isEmpty
                        /\ slots[k].position = "BEN"
                        /\ position \in slots[k].eligiblePositions])
    IN  IF specific # 0 THEN specific
        ELSE IF flex # 0 THEN flex
        ELSE bench

\* nextBenchNumber counting from 1 whatever the number of bench slots.
nextBenchNumberFromOne(rosterSize) == 1

\* nextBenchNumber before the loop.
nextBenchNumber(rosterSize) == benchSlotsNeeded(rosterSize) + 1

\* One turn of the loop: the player at place `player` of the list, of the
\* given position; acc holds slots and nextBenchNumber.
placePlayer(acc, player, position) ==
    IF position \notin validPositions THEN acc
    ELSE LET k == availableSlot(acc.slots, position)
         IN  IF k # 0
             THEN [acc EXCEPT !.slots[k].player = player,
                              !.slots[k].isEmpty = FALSE]
             ELSE [slots |-> Append(acc.slots,
                                [benchSlot(acc.nextBenchNumber) EXCEPT
                                    !.player = player, !.isEmpty = FALSE]),
                   nextBenchNumber |-> acc.nextBenchNumber + 1]

RECURSIVE placePlayersFrom(_, _, _)
\* The loop over players, from place k on.
placePlayersFrom(acc, teamPlayers, k) ==
    IF k > Len(teamPlayers) THEN acc
    ELSE placePlayersFrom(placePlayer(acc, k, teamPlayers[k]), teamPlayers, k + 1)

RECURSIVE placePlayersDownFrom(_, _, _)
\* The loop run from the newest player to the oldest.
placePlayersDownFrom(acc, teamPlayers, k) ==
    IF k < 1 THEN acc
    ELSE placePlayersDownFrom(placePlayer(acc, k, teamPlayers[k]), teamPlayers, k - 1)

\* assignPlayersToRosterSlots placing the newest player first.
assignPlayersNewestFirst(teamPlayers, rosterSize) ==
    placePlayersDownFrom([slots |-> templateSlots(rosterSize),
                          nextBenchNumber |-> nextBenchNumber(rosterSize)],
                         teamPlayers, Len(teamPlayers)).slots

assignPlayersToRosterSlots(teamPlayers, rosterSize) ==
    placePlayersFrom([slots |-> templateSlots(rosterSize),
                      nextBenchNumber |-> nextBenchNumber(rosterSize)],
                     teamPlayers, 1).slots

\* Positions of the players a team acquires; "P" is a position the roster
\* does not know.  DST is left out: like K it has one slot of its own and no
\* place in FLEX.
RosterPositions == {"QB", "WR", "RB", "TE", "K", "P"}

RosterSizeValues == {Len(ROSTER_STRUCTURE) - 1, Len(ROSTER_STRUCTURE) + 1, initialRosterSize}

InitRoster ==
    /\ \E rosterSize \in RosterSizeValues :
          firebaseState = [initialState EXCEPT !.draftSettings.rosterSize = rosterSize]
    /\ players = CatalogIds
    /\ isHost = TRUE
    /\ draftLogger = DraftLogger
    /\ pendingUpdates = NoUpdate
    /\ draftLogic = useDraftLogic(firebaseState.teams)

\* The first team acquires a player of some position.
AcquirePlayer ==
    /\ Len(firebaseState.teams[1].players) < MaxRoster
    /\ \E position \in RosterPositions :
          firebaseState' =
             [firebaseState EXCEPT !.teams[1].players = Append(@, position)]
    /\ UNCHANGED <<players, isHost, pendingUpdates, draftLogic, draftLogger>>

NextRoster == AcquirePlayer

SpecRoster == InitRoster /\ [][NextRoster]_vars

\* The roster table rendered for the first team.
rosterSlots(s) == assignPlayersToRosterSlots(s.teams[1].players, s.draftSettings.rosterSize)

C26_SlotPriority ==
    LET acquired == firebaseState.teams[1].players
        rosterSize == firebaseState.draftSettings.rosterSize
        p == Len(acquired)
        position == acquired[p]
        before == assignPlayersToRosterSlots(ButLast(acquired), rosterSize)
        after == assignPlayersToRosterSlots(acquired, rosterSize)
        first(S) == CHOOSE k \in S : \A j \in S : k <= j
        own == {k \in DOMAIN before : before[k].isEmpty /\ before[k].position = position}
        flex == {k \in DOMAIN before :
                    /\ before[k].isEmpty /\ before[k].id = "flex"
                    /\ position \in {"WR", "RB", "TE"}}
        bench == {k \in DOMAIN before : before[k].isEmpty /\ before[k].position = "BEN"}
        expected == IF own # {} THEN first(own)
                    ELSE IF flex # {} THEN first(flex)
                    ELSE IF bench # {} THEN first(bench)
                    ELSE Len(before) + 1
    IN  /\ (p > 0 /\ position \in {"QB", "WR", "RB", "TE", "K", "DST"}) =>
              /\ expected \in DOMAIN after
              /\ after[expected].player = p
        /\ (acquired = <<"QB", "WR", "WR", "WR", "WR">> /\ rosterSize = 16) =>
              {after[k].id : k \in {j \in DOMAIN after : ~after[j].isEmpty}}
                 = {"qb", "wr1", "wr2", "wr3", "flex"}

\* QB, WR, WR, WR, WR acquired with sixteen roster slots: the last WR is in FLEX
\* and the six bench slots are empty.
C26_Witness ==
    LET slots == rosterSlots(firebaseState)
    IN  /\ firebaseState.teams[1].players = <<"QB", "WR", "WR", "WR", "WR">>
        /\ firebaseState.draftSettings.rosterSize = initialRosterSize
        /\ \E k \in DOMAIN slots : slots[k].id = "flex" /\ slots[k].player = 5
        /\ \A k \in DOMAIN slots : slots[k].position = "BEN" => slots[k].isEmpty

(***************************************************************************)
(* C27.  Roster size is a floor: the table has max(rosterSize, 10) slots   *)
(* and one more bench slot for each player that found no empty slot        *)
(* accepting its position, and all slot ids are distinct.                  *)
(***************************************************************************)
C27_RosterSizeIsFloor ==
    LET acquired == firebaseState.teams[1].players
        rosterSize == firebaseState.draftSettings.rosterSize
        slots == assignPlayersToRosterSlots(acquired, rosterSize)
        floor == IF rosterSize > 10 THEN rosterSize ELSE 10
        foundNoSlot(p) ==
            LET before == assignPlayersToRosterSlots(SubSeq(acquired, 1, p - 1), rosterSize)
            IN  /\ acquired[p] \in {"QB", "WR", "RB", "TE", "K", "DST"}
                /\ \A k \in DOMAIN before :
                      ~(before[k].isEmpty /\ acquired[p] \in before[k].eligiblePositions)
        overflow == {p \in DOMAIN acquired : foundNoSlot(p)}
    IN  /\ Len(slots) = floor + Cardinality(overflow)
        /\ \A k \in DOMAIN slots :
              k > floor => slots[k].position = "BEN" /\ slots[k].player \in overflow
        /\ \A j, k \in DOMAIN slots : slots[j].id = slots[k].id => j = k

\* Eleven roster slots and four players of one position with a single slot:
\* the bench slot of the table is filled and two bench slots are appended.
C27_Witness ==
    LET slots == rosterSlots(firebaseState)
    IN  /\ firebaseState.draftSettings.rosterSize = 11
        /\ Len(firebaseState.teams[1].players) = 4
        /\ Len(slots) = 13
        /\ slots[11].id = "bench1" /\ slots[11].player = 2
        /\ slots[12].id = "bench2" /\ slots[12].player = 3
        /\ slots[13].id = "bench3" /\ slots[13].player = 4

(***************************************************************************)
(* C28.  Append-only slots: the table of a list of players holds, slot for *)
(* slot, the table of the list without its newest player: no slot is       *)
(* removed, renamed or moved, and no player bound before changes slot.     *)
(***************************************************************************)
C28_AppendOnlySlots ==
    LET acquired == firebaseState.teams[1].players
        rosterSize == firebaseState.draftSettings.rosterSize
        shorter == assignPlayersToRosterSlots(ButLast(acquired), rosterSize)
        longer == assignPlayersToRosterSlots(acquired, rosterSize)
    IN  Len(acquired) > 0 =>
           /\ Len(longer) >= Len(shorter)
           /\ \A k \in DOMAIN shorter :
                 /\ longer[k].id = shorter[k].id
                 /\ longer[k].position = shorter[k].position
                 /\ longer[k].eligiblePositions = shorter[k].eligiblePositions
                 /\ ~shorter[k].isEmpty => longer[k] = shorter[k]
           /\ \A k \in DOMAIN longer :
                 (k \notin DOMAIN shorter \/ shorter[k].isEmpty) =>
                    longer[k].player \in {null, Len(acquired)}

\* The fifth player of a position found its three slots and FLEX taken by the
\* players before it and no bench slot: a slot was appended for it.
C28_Witness ==
    LET acquired == firebaseState.teams[1].players
        rosterSize == firebaseState.draftSettings.rosterSize
        shorter == assignPlayersToRosterSlots(ButLast(acquired), rosterSize)
        longer == assignPlayersToRosterSlots(acquired, rosterSize)
    IN  /\ Len(acquired) = 5
        /\ Len(longer) = Len(shorter) + 1
        /\ Last(longer).player = 5
        /\ \E k \in DOMAIN shorter : shorter[k].id = "flex" /\ shorter[k].player = 4

(***************************************************************************)
(* C29.  Cancelling a bid in progress clears selectedPlayer, sets          *)
(* currentBid to 1 and currentBidTeam to null and stops the timer, and     *)
(* leaves draftHistory, draftedPlayers, the teams, currentRound,           *)
(* currentPick, draftMode and snakeDraftOrder unchanged.                   *)
(***************************************************************************)
C29_CancelIsLocalReset ==
    [][(isHost /\ BidCancel) =>
          /\ firebaseState'.selectedPlayer = null
          /\ firebaseState'.currentBid = 1
          /\ firebaseState'.currentBidTeam = null
          /\ firebaseState'.isTimerRunning = FALSE
          /\ firebaseState'.draftHistory = firebaseState.draftHistory
          /\ firebaseState'.draftedPlayers = firebaseState.draftedPlayers
          /\ firebaseState'.teams = firebaseState.teams
          /\ firebaseState'.currentRound = firebaseState.currentRound
          /\ firebaseState'.currentPick = firebaseState.currentPick
          /\ firebaseState'.draftMode = firebaseState.draftMode
          /\ firebaseState'.snakeDraftOrder = firebaseState.snakeDraftOrder]_vars

\* After a recorded pick the host has a player selected, a bidder chosen, the
\* bid raised above one dollar and the timer running: Cancel is on screen.
C29_Witness ==
    /\ isHost
    /\ bidPanelShown(firebaseState)
    /\ Len(firebaseState.draftHistory) > 0
    /\ firebaseState.currentBidTeam # null
    /\ firebaseState.currentBid > 1
    /\ firebaseState.isTimerRunning
    /\ Merge(firebaseState, cancelBid(firebaseState)).currentBid = 1

(***************************************************************************)
(* The draft with its timer: the host types a number of seconds into the   *)
(* "Draft Timer" field of the settings dialog (each keystroke is written), *)
(* the interval of the hook ticks, and the snake panel starts and pauses   *)
(* the timer.                                                              *)
(***************************************************************************)
MaxTimer == 3

\* Seconds typed into the field: one or more, so that timeRemaining is 0 only
\* after the timer has run down.
TimerSecondsValues == 1..MaxTimer

InitTimer ==
    /\ \E ar \in {0, 1}, seconds \in TimerSecondsValues :
          firebaseState = [initialState EXCEPT !.draftSettings.auctionRounds = ar,
                                               !.draftSettings.draftTimer = seconds,
                                               !.timeRemaining = seconds]
    /\ players = CatalogIds
    /\ isHost = TRUE
    /\ draftLogger = DraftLogger
    /\ pendingUpdates = NoUpdate
    /\ draftLogic = useDraftLogic(firebaseState.teams)

\* "Draft Timer (seconds)" field: enabled for the host at any time.
ChangeDraftTimer ==
    /\ isHost
    /\ \E seconds \in TimerSecondsValues :
          Write(updateDraftSetting(firebaseState, "draftTimer", seconds))

\* "Pause Timer" / "Start Timer" button of the snake panel.
ToggleTimer ==
    /\ isHost
    /\ firebaseState.draftMode # "auction"
    /\ IF firebaseState.isTimerRunning
       THEN Write(pauseTimer(firebaseState))
       ELSE Write(startTimer(firebaseState))

\* The commands that set, start or stop the timer, the commits, and the tick;
\* the bid is placed at the dollar the selection starts it with.
NextTimer ==
    \/ PlayerSelect
    \/ PlaceBid
    \/ BidComplete
    \/ BidCancel
    \/ SnakeDraftPick
    \/ UndoDraft
    \/ ResetDraft
    \/ ModeSwitchEffect
    \/ CurrentTeamEffect
    \/ ChangeDraftTimer
    \/ ToggleTimer
    \/ TimerTick

SpecTimer == InitTimer /\ [][NextTimer]_vars

(***************************************************************************)
(* C30.  Timer: a tick of the host while the timer runs lowers             *)
(* timeRemaining by exactly 1 and never below 0, and leaves isTimerRunning *)
(* set exactly when the new time is above 0; no tick changes draftHistory, *)
(* draftedPlayers, currentRound, currentPick or the teams.                 *)
(***************************************************************************)
C30_TimerTicks ==
    [][TimerTick =>
          /\ (isHost /\ firebaseState.isTimerRunning /\ firebaseState.timeRemaining > 0) =>
                /\ firebaseState'.timeRemaining = firebaseState.timeRemaining - 1
                /\ firebaseState'.timeRemaining >= 0
                /\ firebaseState'.isTimerRunning <=> firebaseState'.timeRemaining # 0
          /\ firebaseState'.draftHistory = firebaseState.draftHistory
          /\ firebaseState'.draftedPlayers = firebaseState.draftedPlayers
          /\ firebaseState'.currentRound = firebaseState.currentRound
          /\ firebaseState'.currentPick = firebaseState.currentPick
          /\ firebaseState'.teams = firebaseState.teams
          /\ firebaseState'.selectedPlayer = firebaseState.selectedPlayer
          /\ firebaseState'.currentBidTeam = firebaseState.currentBidTeam]_vars

\* In snake mode, with a pick recorded and a team on the clock, the timer has
\* run down from the draft timer to 0 and has stopped.
C30_Witness ==
    /\ firebaseState.draftMode = "snake"
    /\ Len(firebaseState.draftHistory) > 0
    /\ firebaseState.currentDraftTeam # null
    /\ firebaseState.draftSettings.draftTimer = MaxTimer
    /\ firebaseState.timeRemaining = 0
    /\ ~firebaseState.isTimerRunning

(***************************************************************************)
(* The draft with the host's "Override Global Player List" upload: the     *)
(* parsed rows replace the catalog at once.  A row's id is its line number *)
(* and rows with an unknown position are skipped, so the new catalog is    *)
(* any non-empty set of ids.                                               *)
(***************************************************************************)
HostCsvUpload ==
    /\ isHost
    /\ \E parsedPlayers \in (SUBSET CatalogIds) \ {{}} :
          /\ players' = parsedPlayers
          /\ UNCHANGED <<firebaseState, isHost, pendingUpdates, draftLogic, draftLogger>>

\* The commits at the opening dollar, the undo, the two effects and the upload.
NextCatalog ==
    \/ PlayerSelect
    \/ PlaceBid
    \/ BidComplete
    \/ SnakeDraftPick
    \/ UndoDraft
    \/ ModeSwitchEffect
    \/ CurrentTeamEffect
    \/ HostCsvUpload

SpecCatalog == Init /\ [][NextCatalog]_vars

\* The host can press "Undo Last Pick" and the player of the newest record is
\* not in the catalog.
UndoOfUnknownPlayer ==
    /\ isHost
    /\ Len(firebaseState.draftHistory) > 0
    /\ RemovedRecord.playerId \notin players

(***************************************************************************)
(* C31.  When the player of the newest draftHistory record is not in the   *)
(* catalog, handleUndoDraft issues no update: draftHistory, the teams      *)
(* (budgets and rosters), draftedPlayers, currentRound and currentPick     *)
(* keep their values.                                                      *)
(***************************************************************************)
C31_UndoOfUnknownPlayer ==
    UndoOfUnknownPlayer =>
        /\ DOMAIN handleUndoDraft(firebaseState) = {}
        /\ AfterUndo(firebaseState) = firebaseState

\* A paid pick is recorded, its player has left the catalog with an upload, and
\* the undo leaves the record and the budget spent where they are.
C31_Witness ==
    /\ UndoOfUnknownPlayer
    /\ RemovedRecord.amount >= 1
    /\ Includes(firebaseState.draftedPlayers, RemovedRecord.playerId)
    /\ AfterUndo(firebaseState).draftHistory = firebaseState.draftHistory

(***************************************************************************)
(* The host's commands without the render in between.  A handler is a      *)
(* closure of the last render: it reads firebaseState as that render saw   *)
(* it, awaits the logger, and calls update(); the room merges the fields,  *)
(* and the snapshot reaches the component (onValue, setFirebaseState) with *)
(* the next render.  Until then the next click, and the interval callback  *)
(* of the timer, still read the old values.                                *)
(***************************************************************************)
\* update() applied to fields that are already on their way: a field written
\* twice has the later value.
Override(pending, updates) ==
    [k \in DOMAIN pending \cup DOMAIN updates |->
        IF k \in DOMAIN updates THEN updates[k] ELSE pending[k]]

\* The room document: the rendered snapshot with the pending fields merged in.
room(s, pending) == Merge(s, pending)

\* A handler's update() reaches the room; the component has not rendered it.
Issue(updates) ==
    /\ isHost
    /\ DOMAIN updates # {}
    /\ pendingUpdates' = Override(pendingUpdates, updates)
    /\ UNCHANGED <<firebaseState, players, isHost, draftLogic, draftLogger>>

\* The subscription delivers the room and the component renders it.
onValue ==
    /\ DOMAIN pendingUpdates # {}
    /\ firebaseState' = [room(firebaseState, pendingUpdates) EXCEPT !.error = NoError]
    /\ pendingUpdates' = NoUpdate
    /\ UNCHANGED <<players, isHost, draftLogic, draftLogger>>

IssuePlayerSelect ==
    /\ firebaseState.draftMode = "auction"
    /\ \E p \in listedPlayers(firebaseState) :
          Issue(handlePlayerSelect(firebaseState, p))

IssuePlaceBid ==
    /\ bidPanelShown(firebaseState)
    /\ \E i \in DOMAIN firebaseState.teams :
          /\ canBid(firebaseState, firebaseState.teams[i])
          /\ Issue(handleBid(firebaseState, firebaseState.teams[i].id,
                             firebaseState.currentBid))

IssueBidComplete ==
    /\ bidPanelShown(firebaseState)
    /\ firebaseState.currentBidTeam # null
    /\ Issue(handleBidComplete(firebaseState))

\* "Draft" button of any row of the rendered player list.
IssueSnakeDraftPick ==
    /\ firebaseState.draftMode # "auction"
    /\ firebaseState.currentDraftTeam # null
    /\ \E p \in filteredPlayers(firebaseState) :
          Issue(handleSnakeDraftPick(firebaseState, p))

IssueToggleTimer ==
    /\ firebaseState.draftMode # "auction"
    /\ IF firebaseState.isTimerRunning
       THEN Issue(pauseTimer(firebaseState))
       ELSE Issue(startTimer(firebaseState))

IssueResetDraft ==
    /\ Len(firebaseState.draftHistory) # 0
    /\ Issue(handleResetDraft(firebaseState))

\* The interval callback: it exists while the rendered timer runs, and its
\* closure holds the rendered timeRemaining.
IssueTimerTick ==
    /\ firebaseState.isTimerRunning /\ firebaseState.timeRemaining > 0
    /\ Issue(timerTick(firebaseState))

\* The effects run after a render, before the next command.
IssueModeSwitchEffect ==
    /\ DOMAIN pendingUpdates = {}
    /\ Issue(modeSwitchEffect(firebaseState))

IssueCurrentTeamEffect ==
    /\ DOMAIN pendingUpdates = {}
    /\ Issue(currentTeamEffect(firebaseState))

NextPending ==
    \/ IssuePlayerSelect
    \/ IssuePlaceBid
    \/ IssueBidComplete
    \/ IssueSnakeDraftPick
    \/ IssueToggleTimer
    \/ IssueResetDraft
    \/ IssueTimerTick
    \/ IssueModeSwitchEffect
    \/ IssueCurrentTeamEffect
    \/ onValue

SpecPending == InitTimer /\ [][NextPending]_vars

\* A commit has been written to the room and is not rendered yet.
CommitPending ==
    /\ "draftHistory" \in DOMAIN pendingUpdates
    /\ Len(pendingUpdates.draftHistory) = Len(firebaseState.draftHistory) + 1

\* This step is the commit of another player while a commit is pending.
SecondCommit ==
    /\ CommitPending
    /\ IssueSnakeDraftPick \/ IssueBidComplete
    /\ Last(pendingUpdates'.draftHistory).playerId
          # Last(pendingUpdates.draftHistory).playerId

(***************************************************************************)
(* C32.  No lost pick: when the host commits a second pick before the      *)
(* first one is rendered, the room holds both: draftHistory has two more   *)
(* records and currentPick is two higher than rendered, and both players   *)
(* are in draftedPlayers and on a roster.                                  *)
(***************************************************************************)
C32_NoLostPick ==
    [][SecondCommit =>
          LET first == Last(pendingUpdates.draftHistory).playerId
              second == Last(pendingUpdates'.draftHistory).playerId
          IN  /\ Len(pendingUpdates'.draftHistory) = Len(firebaseState.draftHistory) + 2
              /\ pendingUpdates'.currentPick = firebaseState.currentPick + 2
              /\ \A p \in {first, second} :
                    /\ Includes(pendingUpdates'.draftedPlayers, p)
                    /\ \E i \in DOMAIN pendingUpdates'.teams :
                          Includes(pendingUpdates'.teams[i].players, p)]_vars

(***************************************************************************)
(* C33.  A timer tick computed from the snapshot rendered before a pause,  *)
(* commit, bid or reset leaves the timeRemaining and isTimerRunning that   *)
(* the command has written to the room as they are.                        *)
(***************************************************************************)
C33_StaleTickKeepsCommand ==
    [][IssueTimerTick =>
          \A k \in {"timeRemaining", "isTimerRunning"} \cap DOMAIN pendingUpdates :
              pendingUpdates'[k] = pendingUpdates[k]]_vars

(***************************************************************************)
(* The auction of a league whose budget the host has typed and saved       *)
(* before the first pick (the field takes any number from 1, whatever the  *)
(* number of auction rounds), with enough players for every auction pick.  *)
(* The bid stays at the dollar the selection starts it with.               *)
(***************************************************************************)
SavedBudgetValues == 1..MaxBudget

InitBidding ==
    /\ \E budget \in SavedBudgetValues, ar \in AuctionRoundsValues \ {0} :
          firebaseState = [initialState EXCEPT
              !.teams = [i \in 1..mockTeamCount |-> newTeam(i, budget)],
              !.draftSettings.auctionBudget = budget,
              !.draftSettings.auctionRounds = ar]
    /\ players = 1..(mockTeamCount * 2)
    /\ isHost = TRUE
    /\ draftLogger = DraftLogger
    /\ pendingUpdates = NoUpdate
    /\ draftLogic = useDraftLogic(firebaseState.teams)

NextBidding ==
    \/ PlayerSelect
    \/ PlaceBid
    \/ BidComplete
    \/ BidCancel
    \/ UndoDraft
    \/ ResetDraft
    \/ SnakeDraftPick
    \/ ModeSwitchEffect
    \/ CurrentTeamEffect

SpecBidding == InitBidding /\ [][NextBidding]_vars

\* The team's one-dollar bid is offered by the team grid and taken by handleBid.
dollarBidGoesThrough(s, team) ==
    /\ canTeamBid(team, s.draftHistory, s.draftSettings.auctionRounds, s.currentRound)
    /\ 1 <= getMaxBidForTeam(team, s.draftHistory,
                             s.draftSettings.auctionRounds, s.currentRound)
    /\ DOMAIN handleBid(s, team.id, 1) # {}

(***************************************************************************)
(* C34.  Bidding progress: in every state of an auction round with a       *)
(* selected player, some team's one-dollar bid is offered (canTeamBid and  *)
(* 1 <= getMaxBidForTeam) and accepted by handleBid, so that the host can  *)
(* commit another pick.                                                    *)
(***************************************************************************)
C34_BiddingProgress ==
    (/\ firebaseState.draftMode = "auction"
     /\ firebaseState.currentRound <= firebaseState.draftSettings.auctionRounds
     /\ firebaseState.selectedPlayer # null)
        => \E i \in DOMAIN firebaseState.teams :
              dollarBidGoesThrough(firebaseState, firebaseState.teams[i])

(***************************************************************************)
(* A draft that is turn-taking from its first pick (no auction rounds),    *)
(* with players for two rounds of every team; the team names, edited       *)
(* before the draft, decide the order.                                     *)
(***************************************************************************)
SnakeRoundsPlayed == 2

InitSnake ==
    /\ \E n \in TeamCountValues :
          \E names \in [1..n -> NameLengthValues] :
             /\ firebaseState = [initialState EXCEPT
                   !.teams = [i \in 1..n |->
                                 [newTeam(i, MaxBudget) EXCEPT !.name = names[i]]],
                   !.draftSettings.teamCount = n,
                   !.draftSettings.auctionRounds = 0]
             /\ players = 1..(n * SnakeRoundsPlayed)
    /\ isHost = TRUE
    /\ draftLogger = DraftLogger
    /\ pendingUpdates = NoUpdate
    /\ draftLogic = useDraftLogic(firebaseState.teams)

NextSnake ==
    \/ SnakeDraftPick
    \/ UndoDraft
    \/ ModeSwitchEffect
    \/ CurrentTeamEffect

SpecSnake == InitSnake /\ [][NextSnake]_vars

\* The teams that made the picks of round r, in pick order: each was
\* currentDraftTeam when its pick was committed.
teamsOfRound(s, r) ==
    LET records == SelectSeq(s.draftHistory, LAMBDA rec : rec.round = r)
    IN  [k \in DOMAIN records |-> records[k].teamId]

\* Every pick of turn-taking round r is recorded.
roundComplete(s, r) ==
    /\ r > s.draftSettings.auctionRounds
    /\ Len(teamsOfRound(s, r)) = Len(s.teams)

(***************************************************************************)
(* C35.  Snake fairness: in every complete turn-taking round each team of  *)
(* snakeDraftOrder is on the clock exactly once, and the order of a round  *)
(* is the reverse of the order of the round before it (the team that       *)
(* picks last in a round picks first in the next).                         *)
(***************************************************************************)
C35_SnakeFairness ==
    LET s == firebaseState
        n == Len(s.teams)
    IN  \A r \in 1..s.currentRound :
           roundComplete(s, r) =>
              /\ \A j \in DOMAIN s.snakeDraftOrder :
                    Cardinality({k \in 1..n : teamsOfRound(s, r)[k] = s.snakeDraftOrder[j]}) = 1
              /\ (r > 1 /\ roundComplete(s, r - 1)) =>
                    \A k \in 1..n : teamsOfRound(s, r)[k] = teamsOfRound(s, r - 1)[n + 1 - k]

\* The host can undo, and the newest record is a turn-taking pick.
UndoOfSnakePick ==
    /\ isHost
    /\ Len(firebaseState.draftHistory) > 0
    /\ RemovedRecord.round > firebaseState.draftSettings.auctionRounds

(***************************************************************************)
(* C36.  After the undo of a turn-taking pick, snakeDraftOrder is the      *)
(* order sortTeamsByBudgetWithTiebreaker gives for the teams after the     *)
(* undo, and currentDraftTeam is the team that had made the undone pick.   *)
(***************************************************************************)
C36_UndoOfSnakePick ==
    UndoOfSnakePick =>
        LET after == AfterUndo(firebaseState)
        IN  /\ after.snakeDraftOrder
                  = TeamIds(sortTeamsByBudgetWithTiebreaker(after.teams))
            /\ after.currentDraftTeam = RemovedRecord.teamId

(***************************************************************************)
(* C37.  History is dense: draftHistory has exactly currentPick - 1        *)
(* records, its k-th record has pick k, and the rounds of its records are  *)
(* non-decreasing.                                                         *)
(***************************************************************************)
C37_HistoryIsDense ==
    LET draftHistory == firebaseState.draftHistory
    IN  /\ Len(draftHistory) = firebaseState.currentPick - 1
        /\ \A k \in DOMAIN draftHistory : draftHistory[k].pick = k
        /\ \A j, k \in DOMAIN draftHistory :
              j <= k => draftHistory[j].round <= draftHistory[k].round

\* Three or more picks of two rounds are recorded, the newest a turn-taking
\* pick, and the counters stand one pick after it.
C37_Witness ==
    /\ Len(firebaseState.draftHistory) >= 3
    /\ firebaseState.draftHistory[1].round < RemovedRecord.round
    /\ RemovedRecord.amount = 0
    /\ firebaseState.draftHistory[1].amount >= 1
    /\ firebaseState.currentPick = RemovedRecord.pick + 1

\* The players of the team's own draftHistory records, in draft order.
playersOfRecords(s, teamId) ==
    LET records == SelectSeq(s.draftHistory, LAMBDA rec : rec.teamId = teamId)
    IN  [k \in DOMAIN records |-> records[k].playerId]

(***************************************************************************)
(* C38.  Drafted-set consistency: draftedPlayers, the playerIds of         *)
(* draftHistory and the union of the team rosters are the same set, and    *)
(* each team's roster holds exactly the players of its own history         *)
(* records, in draft order.                                                *)
(***************************************************************************)
C38_DraftedSetConsistency ==
    LET s == firebaseState
        drafted == {s.draftedPlayers[k] : k \in DOMAIN s.draftedPlayers}
        recorded == {s.draftHistory[k].playerId : k \in DOMAIN s.draftHistory}
        onRoster == UNION {{s.teams[i].players[k] : k \in DOMAIN s.teams[i].players} :
                              i \in DOMAIN s.teams}
    IN  /\ drafted = recorded
        /\ recorded = onRoster
        /\ \A i \in DOMAIN s.teams :
              s.teams[i].players = playersOfRecords(s, s.teams[i].id)

(***************************************************************************)
(* The useDraftLogic hook: the same draft engine on local React state.     *)
(* d is the hook's state (lastDraftAction is kept as a sequence, empty for *)
(* null), settings the draftSettings it is given.  Its two effects run     *)
(* with the render that follows a handler, before the next command.        *)
(***************************************************************************)
\* [...teams].sort((a, b) => b.budget - a.budget): stable, no tiebreaker.
sortTeamsByBudget(teams) ==
    LET Before(i, j) == \/ teams[i].budget > teams[j].budget
                        \/ teams[i].budget = teams[j].budget /\ i < j
        Rank(i) == Cardinality({j \in DOMAIN teams : Before(j, i)}) + 1
    IN  [k \in DOMAIN teams |-> teams[CHOOSE i \in DOMAIN teams : Rank(i) = k]]

draftLogicModeEffect(d, settings) ==
    IF d.currentRound > settings.auctionRounds
    THEN IF d.draftMode = "auction"
         THEN [d EXCEPT !.draftMode = "snake",
                        !.snakeDraftOrder = TeamIds(sortTeamsByBudget(d.teams))]
         ELSE d
    ELSE [d EXCEPT !.draftMode = "auction"]

draftLogicTeamEffect(d, settings) ==
    IF d.draftMode = "auction" THEN [d EXCEPT !.currentDraftTeam = null]
    ELSE IF Len(d.snakeDraftOrder) = 0 THEN d
    ELSE [d EXCEPT !.currentDraftTeam =
             snakeTeamOnClock(d.snakeDraftOrder, d.currentRound, d.currentPick,
                              settings.auctionRounds, Len(d.teams))]

draftLogicEffects(d, settings) ==
    draftLogicTeamEffect(draftLogicModeEffect(d, settings), settings)

draftLogicHandleDraftPick(d, settings, playerId, teamId, amount) ==
    IF playerId \notin players THEN d
    ELSE [d EXCEPT
            !.lastDraftAction = <<[playerId |-> playerId, teamId |-> teamId,
                                   amount |-> amount]>>,
            !.teams = [i \in DOMAIN d.teams |->
                IF d.teams[i].id = teamId
                THEN [d.teams[i] EXCEPT
                        !.players = Append(@, playerId),
                        !.budget = IF d.draftMode = "auction" THEN @ - amount ELSE @]
                ELSE d.teams[i]],
            !.draftedPlayers = Append(@, playerId),
            !.draftHistory = Append(@,
                [playerId |-> playerId,
                 teamId |-> teamId,
                 amount |-> IF d.draftMode = "auction" THEN amount ELSE 0,
                 round |-> d.currentRound,
                 pick |-> d.currentPick]),
            !.currentRound = IF d.currentPick % Len(d.teams) = 0 THEN @ + 1 ELSE @,
            !.currentPick = @ + 1]

draftLogicHandleUndoDraft(d) ==
    IF d.lastDraftAction = <<>> THEN d
    ELSE LET action == d.lastDraftAction[1]
         IN  IF action.playerId \notin players THEN d
             ELSE [d EXCEPT
                     !.teams = [i \in DOMAIN d.teams |->
                         IF d.teams[i].id = action.teamId
                         THEN [d.teams[i] EXCEPT
                                 !.players = SelectSeq(@, LAMBDA p : p # action.playerId),
                                 !.budget = IF d.draftMode = "auction"
                                            THEN @ + action.amount ELSE @]
                         ELSE d.teams[i]],
                     !.draftedPlayers = SelectSeq(@, LAMBDA id : id # action.playerId),
                     !.draftHistory = ButLast(@),
                     !.lastDraftAction = <<>>]

(***************************************************************************)
(* Both engines driven by the same commands: every commit the App's        *)
(* controls allow (an auction pick for a dollar, a turn-taking pick of the *)
(* team on the clock) and every undo is given to the hook as well.         *)
(***************************************************************************)
InitLogic ==
    /\ \E ar \in AuctionRoundsValues :
          firebaseState = [initialState EXCEPT !.draftSettings.auctionRounds = ar]
    /\ players = 1..(mockTeamCount * 2)
    /\ isHost = TRUE
    /\ draftLogger = DraftLogger
    /\ pendingUpdates = NoUpdate
    /\ draftLogic = draftLogicEffects(useDraftLogic(firebaseState.teams),
                                      firebaseState.draftSettings)

\* handleDraftPick(playerId, teamId, amount) called on both engines.
CommitOnBoth(playerId, teamId, amount) ==
    /\ firebaseState' = updateFirebaseState(firebaseState,
                            handleDraftPick(firebaseState, playerId, teamId, amount))
    /\ draftLogic' = draftLogicEffects(
                        draftLogicHandleDraftPick(draftLogic, firebaseState.draftSettings,
                                                  playerId, teamId, amount),
                        firebaseState.draftSettings)
    /\ UNCHANGED <<players, isHost, pendingUpdates, draftLogger>>

\* The hook's pick counter is followed up to the number of players.
LogicDraftPick ==
    /\ EffectsSettled(firebaseState)
    /\ draftLogic.currentPick <= Cardinality(players)
    /\ \E p \in listedPlayers(firebaseState) :
          \/ /\ firebaseState.draftMode = "auction"
             /\ \E i \in DOMAIN firebaseState.teams :
                   /\ canBid([firebaseState EXCEPT !.currentBid = 1], firebaseState.teams[i])
                   /\ firebaseState.teams[i].budget >= 1
                   /\ CommitOnBoth(p, firebaseState.teams[i].id, 1)
          \/ /\ firebaseState.draftMode = "snake"
             /\ firebaseState.currentDraftTeam # null
             /\ CommitOnBoth(p, firebaseState.currentDraftTeam, 0)

LogicUndoDraft ==
    /\ EffectsSettled(firebaseState)
    /\ Len(firebaseState.draftHistory) > 0
    /\ firebaseState' = updateFirebaseState(firebaseState, handleUndoDraft(firebaseState))
    /\ draftLogic' = draftLogicEffects(draftLogicHandleUndoDraft(draftLogic),
                                       firebaseState.draftSettings)
    /\ UNCHANGED <<players, isHost, pendingUpdates, draftLogger>>

NextLogic ==
    \/ LogicDraftPick
    \/ LogicUndoDraft
    \/ ModeSwitchEffect
    \/ CurrentTeamEffect

SpecLogic == InitLogic /\ [][NextLogic]_vars

(***************************************************************************)
(* C39.  The two implementations agree: after the same commits and undos   *)
(* from the initial state, useDraftLogic and the App component have the    *)
(* same currentRound, currentPick, draftMode, team budgets, draftedPlayers *)
(* and draftHistory (compared once the App's effects have run).            *)
(***************************************************************************)
C39_EnginesAgree ==
    EffectsSettled(firebaseState) =>
        /\ draftLogic.currentRound = firebaseState.currentRound
        /\ draftLogic.currentPick = firebaseState.currentPick
        /\ draftLogic.draftMode = firebaseState.draftMode
        /\ [i \in DOMAIN draftLogic.teams |-> draftLogic.teams[i].budget]
              = TeamBudgets(firebaseState)
        /\ draftLogic.draftedPlayers = firebaseState.draftedPlayers
        /\ draftLogic.draftHistory = firebaseState.draftHistory

(***************************************************************************)
(* The draft logger (DraftLogger): a queue of log entries, each written to *)
(* draftLogs/<roomId> with push(); a write that fails with an error other  *)
(* than permission-denied is put back at the head of the queue by a timer. *)
(* processQueue awaits every push(), so one push() is in flight at a time  *)
(* and the actions are the calls of logAction, the three ways a push()     *)
(* settles, a timer callback, and the passing of time.                     *)
(***************************************************************************)
RandomSuffixes == 1..2

\* `${roomId}_${Date.now()}_${Math.random()...}`: the room is the same for
\* every entry of a logger, so an id is the clock reading and the suffix.
entryId(l, random) == <<l.now, random>>

\* retryAttempts[id] || 0
retryCountOf(l, id) ==
    IF id \in DOMAIN l.retryAttempts THEN l.retryAttempts[id] ELSE 0

\* delete retryAttempts[id]
deleteRetryAttempt(attempts, id) ==
    [k \in DOMAIN attempts \ {id} |-> attempts[k]]

\* retryAttempts[id] = count
setRetryAttempt(attempts, id, count) ==
    [k \in DOMAIN attempts \cup {id} |-> IF k = id THEN count ELSE attempts[k]]

\* writeLogEntry up to its await: the id is computed and push() is called.
writeLogEntry(l, logEntry, random) ==
    [l EXCEPT !.writing = <<[logEntry |-> logEntry,
                             entryId |-> entryId(l, random)]>>,
              !.pushes[logEntry] = @ + 1]

\* The while loop of processQueue, entered at its condition: the next entry
\* is shifted off the queue and written, or the flag is lowered.
processQueueLoop(l, random) ==
    IF l.logQueue # <<>>
    THEN writeLogEntry([l EXCEPT !.logQueue = Tail(@)], Head(l.logQueue), random)
    ELSE [l EXCEPT !.isProcessingQueue = FALSE]

processQueue(l, random) ==
    IF l.isProcessingQueue \/ l.logQueue = <<>> THEN l
    ELSE processQueueLoop([l EXCEPT !.isProcessingQueue = TRUE], random)

\* The catch branch of writeLogEntry for an error that is not a permission
\* error: the retry count is looked up under the id of THIS call.
scheduleRetry(l) ==
    LET w == l.writing[1]
        retryCount == retryCountOf(l, w.entryId)
    IN  IF retryCount < maxRetries
        THEN [l EXCEPT !.retryAttempts =
                           setRetryAttempt(@, w.entryId, retryCount + 1),
                       !.timeouts = @ \cup
                           {[logEntry |-> w.logEntry,
                             due |-> l.now + retryDelay * (retryCount + 1)]},
                       !.writing = <<>>]
        ELSE [l EXCEPT !.retryAttempts = deleteRetryAttempt(@, w.entryId),
                       !.writing = <<>>]

\* logAction with a room id and a real change: the entry is queued and the
\* queue is processed.
LogAction ==
    /\ draftLogger.isEnabled
    /\ draftLogger.entries < MaxLogEntries
    /\ \E random \in RandomSuffixes :
          draftLogger' =
              processQueue([draftLogger EXCEPT
                                !.entries = @ + 1,
                                !.logQueue = Append(@, draftLogger.entries + 1)],
                           random)
    /\ UNCHANGED <<firebaseState, players, isHost, pendingUpdates, draftLogic>>

\* push() resolves.
PushResolves ==
    /\ draftLogger.writing # <<>>
    /\ \E random \in RandomSuffixes :
          draftLogger' =
              processQueueLoop(
                  [draftLogger EXCEPT
                       !.retryAttempts =
                           deleteRetryAttempt(@, draftLogger.writing[1].entryId),
                       !.writing = <<>>],
                  random)
    /\ UNCHANGED <<firebaseState, players, isHost, pendingUpdates, draftLogic>>

\* push() rejects with an error that is not a permission error.
PushFails ==
    /\ draftLogger.writing # <<>>
    /\ \E random \in RandomSuffixes :
          draftLogger' = processQueueLoop(scheduleRetry(draftLogger), random)
    /\ UNCHANGED <<firebaseState, players, isHost, pendingUpdates, draftLogic>>

\* push() rejects with PERMISSION_DENIED.
PushDenied ==
    /\ draftLogger.writing # <<>>
    /\ \E random \in RandomSuffixes :
          draftLogger' =
              processQueueLoop(
                  [draftLogger EXCEPT !.isEnabled = FALSE,
                                      !.logQueue = <<>>,
                                      !.retryAttempts = <<>>,
                                      !.writing = <<>>],
                  random)
    /\ UNCHANGED <<firebaseState, players, isHost, pendingUpdates, draftLogic>>

\* A setTimeout callback runs: logQueue.unshift(logEntry); processQueue().
RetryTimeout ==
    /\ \E t \in draftLogger.timeouts, random \in RandomSuffixes :
          /\ t.due <= draftLogger.now
          /\ draftLogger' =
                 processQueue([draftLogger EXCEPT
                                   !.timeouts = @ \ {t},
                                   !.logQueue = <<t.logEntry>> \o @],
                              random)
    /\ UNCHANGED <<firebaseState, players, isHost, pendingUpdates, draftLogic>>

\* retryDelay milliseconds pass.
TimePasses ==
    /\ draftLogger.now < MaxClock * retryDelay
    /\ draftLogger' = [draftLogger EXCEPT !.now = @ + retryDelay]
    /\ UNCHANGED <<firebaseState, players, isHost, pendingUpdates, draftLogic>>

NextLogger ==
    \/ LogAction
    \/ PushResolves
    \/ PushFails
    \/ PushDenied
    \/ RetryTimeout
    \/ TimePasses

SpecLogger == Init /\ [][NextLogger]_vars

\* Nothing of the logger is left to run: no entry queued, no push() in flight,
\* no timer scheduled.
loggerIdle(l) ==
    /\ l.logQueue = <<>>
    /\ l.writing = <<>>
    /\ l.timeouts = {}

\* C40: a log entry is written (push() is called for it) at most
\* 1 + maxRetries times, and once the logger has nothing left to write or to
\* retry, retryAttempts holds no entry.
C40_BoundedLogRetries ==
    /\ \A e \in DOMAIN draftLogger.pushes :
          draftLogger.pushes[e] <= 1 + maxRetries
    /\ loggerIdle(draftLogger) => DOMAIN draftLogger.retryAttempts = {}

====
